---------------------------- MODULE Spec2Model ----------------------------
(***************************************************************************)
(* A model of the api.deepersensor gateway: the per-client token-bucket    *)
(* rate limiter (api/src/rate_limit.rs), the newline-delimited chat stream *)
(* of the Ollama provider (crates/model/src/lib.rs), and the handlers with *)
(* their validation (crates/api/src/routes.rs, api/src/routes.rs).         *)
(*                                                                         *)
(* Time is an integer number of milliseconds.  The code measures elapsed   *)
(* time as an f64 number of seconds and casts per_sec * elapsed to u64,    *)
(* which truncates; on integer milliseconds that is                        *)
(* (rate_per_min * elapsed_ms) \div 60000.  The u64 fields stay far below  *)
(* 2^64 within the bounds used here, so no wrap-around is reachable.       *)
(***************************************************************************)
EXTENDS Integers, Sequences, FiniteSets, TLC

VARIABLES
    cfg,        \* AppConfig.rate_limit: [enabled, requests_per_minute, burst]
    now,        \* the monotonic clock (Instant::now()), in milliseconds
    rate_map,   \* AppState.rate_map: client key -> TokenBucket (present keys only)
    log,        \* per client ip, the calls of rate_limit made so far, in order
    pc,         \* per task, its position inside rate_limit / allow
    loc,        \* per task, the locals of its call in flight
    shard_of,   \* DashMap: the shard each registry key hashes to
    shard_lock, \* DashMap: per shard, the task holding its write guard (0: none)
    mutex,      \* per registry key, the task holding the bucket's Mutex (0: none)
    upstream,   \* chat_stream: the bytes of the upstream response body
    pos,        \* chat_stream: how many of them the network has delivered
    buffer,     \* chat_stream: `buffer`, the bytes received and not yet split off
    spc,        \* chat_stream: where the generator of try_stream! stands
    demand,     \* chat_stream: the consumer is polling for the next item
    reads,      \* chat_stream: calls of byte_stream.next() since the last item
    trace,      \* chat_stream: the items handed to the consumer, in order
    detail,     \* the text of the upstream's errors (reqwest / serde_json Display)
    req,        \* the HTTP request being handled: [handler, ip, input], with the
                \* registry as it was when the request arrived (before)
    rpc,        \* where its handler stands
    steps,      \* what the handler has called so far, in order
    consumed,   \* how many items of the chat stream the handler has taken
    out,        \* chat: `out`, the chunks collected so far
    events,     \* chat_stream_sse: the events sent downstream so far
    response,   \* the HTTP response: [status, body], or NoResponse
    served,     \* the number of requests answered so far
    users       \* the table `users` of the database: rows of id, email, password_hash

bucketVars == <<cfg, now, rate_map, log>>

concVars == <<pc, loc, shard_of, shard_lock, mutex>>

streamVars == <<upstream, pos, buffer, spc, demand, reads, trace>>

reqVars == <<detail, req, rpc, steps, consumed, out, events, response, served>>

dbVars == <<users>>

vars == <<cfg, now, rate_map, log, pc, loc, shard_of, shard_lock, mutex,
          upstream, pos, buffer, spc, demand, reads, trace,
          detail, req, rpc, steps, consumed, out, events, response, served, users>>

----------------------------------------------------------------------------
(* Bounds of the model *)

MaxRate == 3
MaxBurst == 2
MaxCalls == 7
StepMs == 20000
MaxTimeMs == 80000
NumTasks == 3
NumShards == 2
MaxConcCalls == 3
MaxConcTimeMs == 20000

(* Program constants *)

MsPerMinute == 60000
DefaultRequestsPerMinute == 60
DefaultBurst == 20

\* the client addresses of the model (IpAddr::V4 octets)
Ips == {<<10, 0, 0, 1>>, <<10, 0, 0, 2>>}

\* the client of the single-client scenarios
ScenarioIp == <<10, 0, 0, 1>>

Min(a, b) == IF a < b THEN a ELSE b

----------------------------------------------------------------------------
(* TokenBucket *)

\* a bucket that starts empty
TokenBucketNewEmpty(rate_per_min, burst, t) ==
    [available |-> 0, last |-> t, rate_per_min |-> rate_per_min, burst |-> burst]

\* TokenBucket::new: tokens = (burst, Instant::now())
TokenBucketNew(rate_per_min, burst, t) ==
    [available |-> burst, last |-> t, rate_per_min |-> rate_per_min, burst |-> burst]

\* now.duration_since(*last): saturates to zero when last is later than now
DurationSince(t, last) == IF t > last THEN t - last ELSE 0

\* f64 arithmetic of line 18: the pairs (rate_per_min, elapsed in ms) whose
\* product (rate_per_min / 60.0) * elapsed comes out as the double just below
\* the whole number rate_per_min * elapsed / 60.  42.0 / 60.0 is the double
\* 0.69999999999999995559; times 90.0 that is 62.999999999999996003, nearer
\* to the double 62.999999999999992895 than to 63.0, and `as u64` truncates
\* it to 62.  For the other rates of the model (1 to 20, and 60) and every
\* whole number of milliseconds up to 200 s the truncated product is the
\* exact floor.
F64Short == {<<42, 90000>>, <<42, 170000>>, <<42, 180000>>}

\* a buggy rate: requests_per_minute taken as a rate per second
RefillAmountPerSecond(rate_per_min, elapsed) == (rate_per_min * elapsed * 60) \div MsPerMinute

\* (per_sec * elapsed) as u64, with per_sec = rate_per_min as f64 / 60.0
RefillAmount(rate_per_min, elapsed) ==
    (rate_per_min * elapsed) \div MsPerMinute
        - (IF <<rate_per_min, elapsed>> \in F64Short THEN 1 ELSE 0)

\* a buggy refill: last is set to the time of every call, credited or not
RefillStampingAlways(b, t) ==
    LET elapsed == DurationSince(t, b.last)
        refill == RefillAmount(b.rate_per_min, elapsed)
    IN  [b EXCEPT !.available = Min(b.available + refill, b.burst), !.last = t]

\* a buggy refill: the sum is not capped at burst
RefillNoCap(b, t) ==
    LET elapsed == DurationSince(t, b.last)
        refill == RefillAmount(b.rate_per_min, elapsed)
    IN  IF elapsed > 0 /\ refill > 0
        THEN [b EXCEPT !.available = b.available + refill, !.last = t]
        ELSE b

\* lines 16-20 of allow: the lazy refill
Refill(b, t) ==
    LET elapsed == DurationSince(t, b.last)
        refill == RefillAmount(b.rate_per_min, elapsed)
    IN  IF elapsed > 0 /\ refill > 0
        THEN [b EXCEPT !.available = Min(b.available + refill, b.burst), !.last = t]
        ELSE b

\* a buggy take: the call is allowed and the token stays in the bucket
TakeFree(b) ==
    IF b.available > 0
    THEN [bucket |-> b, ok |-> TRUE]
    ELSE [bucket |-> b, ok |-> FALSE]

\* a buggy take that winds the time of the last refill back
TakeResettingLast(b) ==
    IF b.available > 0
    THEN [bucket |-> [b EXCEPT !.available = b.available - 1, !.last = b.last - 1], ok |-> TRUE]
    ELSE [bucket |-> b, ok |-> FALSE]

\* line 21 of allow: check and decrement
Take(b) ==
    IF b.available > 0
    THEN [bucket |-> [b EXCEPT !.available = b.available - 1], ok |-> TRUE]
    ELSE [bucket |-> b, ok |-> FALSE]

\* a buggy allow: tokens are credited but last is left where it was
AllowKeepingLast(b, t) == Take([Refill(b, t) EXCEPT !.last = b.last])

\* TokenBucket::allow, run to completion under the bucket's lock at time t
Allow(b, t) == Take(Refill(b, t))

----------------------------------------------------------------------------
(* rate_limit *)

\* a buggy key: every client under one registry key
IpKeyShared(ip) == "0.0.0.0"

\* line 27, ip.to_string(): the dotted text of the address
IpKey(ip) ==
    ToString(ip[1]) \o "." \o ToString(ip[2]) \o "." \o ToString(ip[3]) \o "." \o ToString(ip[4])

\* a buggy registry insert: a fresh bucket replaces the one present
InsertAlways(map, key, bucket) == (key :> bucket) @@ map

\* DashMap::entry(key).or_insert_with(make): the map with the key present
OrInsertWith(map, key, bucket) ==
    IF key \in DOMAIN map THEN map ELSE (key :> bucket) @@ map

RECURSIVE SumLen(_, _)
SumLen(f, S) ==
    IF S = {} THEN 0
    ELSE LET x == CHOOSE y \in S : TRUE IN Len(f[x]) + SumLen(f, S \ {x})

\* the number of rate_limit calls made so far, over all clients
TotalCalls == SumLen(log, Ips)

\* rate_limit(state, ip) for a caller whose registry key is `key`, with the
\* feature flag `enabled`: the whole call, run without interleaving
RateLimitWith(ip, key, enabled) ==
    IF ~enabled
    THEN /\ rate_map' = rate_map
         /\ log' = [log EXCEPT ![ip] = Append(@, [t |-> now, ok |-> TRUE, created |-> FALSE,
                                                  available |-> -1, last |-> -1,
                                                  last_seen |-> -1, born |-> -1, contended |-> 0])]
    ELSE LET fresh == TokenBucketNew(cfg.requests_per_minute, cfg.burst, now)
             map == OrInsertWith(rate_map, key, fresh)
             r == Allow(map[key], now)
         IN  /\ rate_map' = [map EXCEPT ![key] = r.bucket]
             /\ log' = [log EXCEPT ![ip] = Append(@, [t |-> now, ok |-> r.ok,
                                                      created |-> key \notin DOMAIN rate_map,
                                                      available |-> r.bucket.available,
                                                      last |-> r.bucket.last,
                                                      last_seen |-> map[key].last,
                                                      born |-> IF key \in DOMAIN rate_map
                                                               THEN -1 ELSE now,
                                                      contended |-> 0])]

\* a buggy rate_limit: the feature flag is not consulted
RateLimitIgnoringFlag(ip) ==
    /\ RateLimitWith(ip, IpKey(ip), TRUE)
    /\ UNCHANGED <<cfg, now>>
    /\ UNCHANGED concVars
    /\ UNCHANGED dbVars
    /\ UNCHANGED streamVars
    /\ UNCHANGED reqVars

\* rate_limit (lines 25-31): Ok(()) when disabled or allowed, RateLimited otherwise
RateLimit(ip) ==
    /\ RateLimitWith(ip, IpKey(ip), cfg.enabled)
    /\ UNCHANGED <<cfg, now>>
    /\ UNCHANGED concVars
    /\ UNCHANGED dbVars
    /\ UNCHANGED streamVars
    /\ UNCHANGED reqVars

\* time passes between calls
Tick ==
    /\ now + StepMs <= MaxTimeMs
    /\ now' = now + StepMs
    /\ UNCHANGED <<cfg, rate_map, log>>
    /\ UNCHANGED concVars
    /\ UNCHANGED dbVars
    /\ UNCHANGED streamVars
    /\ UNCHANGED reqVars

EmptyMap == [k \in {} |-> 0]

Tasks == 1..NumTasks

Keys == {IpKey(ip) : ip \in Ips}

NoLocals == [ip |-> <<>>, key |-> "", t |-> -1, last_seen |-> -1, born |-> -1, ok |-> FALSE]

\* no chat stream is open
NoStream ==
    /\ upstream = <<>>
    /\ pos = 0
    /\ buffer = <<>>
    /\ spc = "none"
    /\ demand = FALSE
    /\ reads = 0
    /\ trace = <<>>

NoRequestRecord ==
    [handler |-> "none", ip |-> <<>>, input |-> [model |-> <<>>, messages |-> <<>>],
     before |-> [k \in {} |-> 0]]

NoResponse == [status |-> 0, body |-> <<>>]

\* no request is being handled
NoRequest ==
    /\ detail = ""
    /\ req = NoRequestRecord
    /\ rpc = "idle"
    /\ steps = <<>>
    /\ consumed = 0
    /\ out = <<>>
    /\ events = <<>>
    /\ response = NoResponse
    /\ served = 0

\* no user has signed up
NoUsers == users = {}

\* no task is inside rate_limit
NoTasks ==
    /\ pc = [p \in Tasks |-> "idle"]
    /\ loc = [p \in Tasks |-> NoLocals]
    /\ shard_of = [k \in Keys |-> 1]
    /\ shard_lock = [s \in 1..NumShards |-> 0]
    /\ mutex = [k \in Keys |-> 0]

InitBucket ==
    /\ cfg \in [enabled : BOOLEAN, requests_per_minute : 1..MaxRate, burst : 1..MaxBurst]
    /\ now = 0
    /\ rate_map = EmptyMap
    /\ log = [ip \in Ips |-> <<>>]
    /\ NoTasks
    /\ NoUsers
    /\ NoStream
    /\ NoRequest

NextBucket ==
    \/ \E ip \in Ips : TotalCalls < MaxCalls /\ RateLimit(ip)
    \/ Tick

SpecBucket == InitBucket /\ [][NextBucket]_vars

----------------------------------------------------------------------------
(* Scenario A: one client against the default configuration *)

ScenarioCalls == 23
ScenarioStepMs == 500
ScenarioMaxMs == 1500

\* AppConfig::load defaults: enabled, 60 requests per minute, burst 20
DefaultRateLimit ==
    [enabled |-> TRUE, requests_per_minute |-> DefaultRequestsPerMinute, burst |-> DefaultBurst]

ScenarioTick ==
    /\ now + ScenarioStepMs <= ScenarioMaxMs
    /\ now' = now + ScenarioStepMs
    /\ UNCHANGED <<cfg, rate_map, log>>
    /\ UNCHANGED concVars
    /\ UNCHANGED dbVars
    /\ UNCHANGED streamVars
    /\ UNCHANGED reqVars

InitScenarioA ==
    /\ cfg = DefaultRateLimit
    /\ now = 0
    /\ rate_map = EmptyMap
    /\ log = [ip \in Ips |-> <<>>]
    /\ NoTasks
    /\ NoUsers
    /\ NoStream
    /\ NoRequest

NextScenarioA ==
    \/ TotalCalls < ScenarioCalls /\ RateLimit(ScenarioIp)
    \/ ScenarioTick

SpecScenarioA == InitScenarioA /\ [][NextScenarioA]_vars

----------------------------------------------------------------------------
(* One client whose bucket has been drained: the refill of allow *)

RefillCalls == 3
RefillStepMs == 30000
RefillMaxMs == 90000
RefillBurst == 100

\* requests_per_minute is any u64 of the configuration
RefillRates == {3, 42}

RefillTick ==
    /\ now + RefillStepMs <= RefillMaxMs
    /\ now' = now + RefillStepMs
    /\ UNCHANGED <<cfg, rate_map, log>>
    /\ UNCHANGED concVars
    /\ UNCHANGED dbVars
    /\ UNCHANGED streamVars
    /\ UNCHANGED reqVars

\* the client's bucket was created at time 0 and its calls at that instant
\* have left it no token, or one
InitRefill ==
    /\ cfg \in [enabled : {TRUE}, requests_per_minute : RefillRates, burst : {RefillBurst}]
    /\ now = 0
    /\ \E a \in 0..1 :
          rate_map = (IpKey(ScenarioIp) :>
                         [TokenBucketNew(cfg.requests_per_minute, cfg.burst, 0)
                             EXCEPT !.available = a])
    /\ log = [ip \in Ips |-> <<>>]
    /\ NoTasks
    /\ NoUsers
    /\ NoStream
    /\ NoRequest

NextRefill ==
    \/ TotalCalls < RefillCalls /\ RateLimit(ScenarioIp)
    \/ RefillTick

SpecRefill == InitRefill /\ [][NextRefill]_vars

----------------------------------------------------------------------------
(* rate_limit called from concurrent tasks.  A task runs rate_limit in the   *)
(* steps between which the runtime can run another task: taking the write    *)
(* guard of the key's shard (entry), taking the bucket's Mutex (lock().await)*)
(* and the statements of allow under that Mutex.                             *)

InFlight == {p \in Tasks : pc[p] # "idle"}

\* the tasks that have entered rate_limit for key k and wait for its registry entry
Waiting(k) == {q \in Tasks : loc[q].key = k /\ pc[q] = "entry"}

\* a request arrives on a new task: rate_limit is entered (line 26 returns at
\* once when disabled).  Tasks being alike, the new task takes the lowest free id.
Call(p, ip) ==
    /\ pc[p] = "idle"
    /\ \A q \in Tasks : q < p => pc[q] # "idle"
    /\ TotalCalls + Cardinality(InFlight) < MaxConcCalls
    /\ IF ~cfg.enabled
       THEN /\ log' = [log EXCEPT ![ip] = Append(@, [t |-> now, ok |-> TRUE, created |-> FALSE,
                                                     available |-> -1, last |-> -1,
                                                     last_seen |-> -1, born |-> -1, contended |-> 0])]
            /\ UNCHANGED <<pc, loc>>
       ELSE /\ pc' = [pc EXCEPT ![p] = "entry"]
            /\ loc' = [loc EXCEPT ![p] = [NoLocals EXCEPT !.ip = ip, !.key = IpKey(ip)]]
            /\ UNCHANGED log
    /\ UNCHANGED <<cfg, now, rate_map, shard_of, shard_lock, mutex>>
    /\ UNCHANGED streamVars
    /\ UNCHANGED dbVars
    /\ UNCHANGED reqVars

\* line 28: rate_map.entry(key).or_insert_with(..), which holds the shard's
\* write guard until `entry` is dropped
Entry(p) ==
    /\ pc[p] = "entry"
    /\ shard_lock[shard_of[loc[p].key]] = 0
    /\ shard_lock' = [shard_lock EXCEPT ![shard_of[loc[p].key]] = p]
    /\ rate_map' = OrInsertWith(rate_map, loc[p].key,
                                    TokenBucketNew(cfg.requests_per_minute, cfg.burst, now))
    /\ loc' = [loc EXCEPT ![p].born = IF loc[p].key \in DOMAIN rate_map THEN -1 ELSE now]
    /\ pc' = [pc EXCEPT ![p] = "lock"]
    /\ UNCHANGED <<cfg, now, log, shard_of, mutex>>
    /\ UNCHANGED streamVars
    /\ UNCHANGED dbVars
    /\ UNCHANGED reqVars

\* line 13: self.tokens.lock().await gives the guard, on the first poll or,
\* after a suspension, on a later one
Lock(p) ==
    /\ pc[p] \in {"lock", "relock"}
    /\ mutex[loc[p].key] = 0
    /\ mutex' = [mutex EXCEPT ![loc[p].key] = p]
    /\ pc' = [pc EXCEPT ![p] = "refill"]
    /\ UNCHANGED <<cfg, now, rate_map, log, loc, shard_of, shard_lock>>
    /\ UNCHANGED streamVars
    /\ UNCHANGED dbVars
    /\ UNCHANGED reqVars

\* lines 15-20: read the clock and refill
RefillStep(p) ==
    /\ pc[p] = "refill"
    /\ loc' = [loc EXCEPT ![p].t = now, ![p].last_seen = rate_map[loc[p].key].last]
    /\ rate_map' = [rate_map EXCEPT ![loc[p].key] = Refill(@, now)]
    /\ pc' = [pc EXCEPT ![p] = "take"]
    /\ UNCHANGED <<cfg, now, log, shard_of, shard_lock, mutex>>
    /\ UNCHANGED streamVars
    /\ UNCHANGED dbVars
    /\ UNCHANGED reqVars

\* line 21: check and decrement
TakeStep(p) ==
    /\ pc[p] = "take"
    /\ LET r == Take(rate_map[loc[p].key])
       IN  /\ rate_map' = [rate_map EXCEPT ![loc[p].key] = r.bucket]
           /\ loc' = [loc EXCEPT ![p].ok = r.ok]
           /\ log' = [log EXCEPT ![loc[p].ip] =
                         Append(@, [t |-> loc[p].t, ok |-> r.ok,
                                    created |-> loc[p].born # -1,
                                    available |-> r.bucket.available,
                                    last |-> r.bucket.last,
                                    last_seen |-> loc[p].last_seen,
                                    born |-> loc[p].born,
                                    contended |-> Cardinality(Waiting(loc[p].key))])]
    /\ pc' = [pc EXCEPT ![p] = "unlock"]
    /\ UNCHANGED <<cfg, now, shard_of, shard_lock, mutex>>
    /\ UNCHANGED streamVars
    /\ UNCHANGED dbVars
    /\ UNCHANGED reqVars

\* line 22: allow returns and its MutexGuard is dropped
Unlock(p) ==
    /\ pc[p] = "unlock"
    /\ mutex' = [mutex EXCEPT ![loc[p].key] = 0]
    /\ pc' = [pc EXCEPT ![p] = "return"]
    /\ UNCHANGED <<cfg, now, rate_map, log, loc, shard_of, shard_lock>>
    /\ UNCHANGED streamVars
    /\ UNCHANGED dbVars
    /\ UNCHANGED reqVars

\* lines 29-31: rate_limit returns and `entry` (the shard's guard) is dropped
Return(p) ==
    /\ pc[p] = "return"
    /\ shard_lock' = [shard_lock EXCEPT ![shard_of[loc[p].key]] = 0]
    /\ pc' = [pc EXCEPT ![p] = "idle"]
    /\ loc' = [loc EXCEPT ![p] = NoLocals]
    /\ UNCHANGED <<cfg, now, rate_map, log, shard_of, mutex>>
    /\ UNCHANGED streamVars
    /\ UNCHANGED dbVars
    /\ UNCHANGED reqVars

ConcTick ==
    /\ now + StepMs <= MaxConcTimeMs
    /\ now' = now + StepMs
    /\ UNCHANGED <<cfg, rate_map, log>>
    /\ UNCHANGED concVars
    /\ UNCHANGED dbVars
    /\ UNCHANGED streamVars
    /\ UNCHANGED reqVars

\* the hash of a key decides its shard; shards being alike, the first key's is shard 1
InitConc ==
    /\ cfg \in [enabled : BOOLEAN, requests_per_minute : 1..MaxRate, burst : 1..MaxBurst]
    /\ now = 0
    /\ rate_map = EmptyMap
    /\ log = [ip \in Ips |-> <<>>]
    /\ pc = [p \in Tasks |-> "idle"]
    /\ loc = [p \in Tasks |-> NoLocals]
    /\ shard_of \in {f \in [Keys -> 1..NumShards] : f[IpKey(ScenarioIp)] = 1}
    /\ shard_lock = [s \in 1..NumShards |-> 0]
    /\ mutex = [k \in Keys |-> 0]
    /\ NoUsers
    /\ NoStream
    /\ NoRequest

NextConc ==
    \/ \E p \in Tasks : \E ip \in Ips : Call(p, ip)
    \/ \E p \in Tasks : Entry(p)
    \/ \E p \in Tasks : Lock(p)
    \/ \E p \in Tasks : RefillStep(p)
    \/ \E p \in Tasks : TakeStep(p)
    \/ \E p \in Tasks : Unlock(p)
    \/ \E p \in Tasks : Return(p)
    \/ ConcTick

SpecConc == InitConc /\ [][NextConc]_vars

----------------------------------------------------------------------------
(* rate_limit on the runtime of #[tokio::main]: tasks run on worker threads *)

NumWorkers == 2

\* the tasks that occupy a worker thread: those being polled, and those
\* blocked inside rate_map.entry(key), which waits for the shard's lock
\* without giving the thread back
OnWorker == {p \in Tasks : pc[p] \notin {"idle", "parked"}}

\* a worker thread is free to poll a task
WorkerFree == Cardinality(OnWorker) < NumWorkers

\* a request arrives and its task is polled by a free worker
Start(p, ip) ==
    /\ WorkerFree
    /\ Call(p, ip)

\* line 13: `.await` is a suspension point.  The future of lock() returns
\* Pending (the task has used up the budget of its poll) and the task leaves
\* its worker thread, still holding `entry`, the write guard of its shard
Suspend(p) ==
    /\ pc[p] = "lock"
    /\ pc' = [pc EXCEPT ![p] = "parked"]
    /\ UNCHANGED <<cfg, now, rate_map, log, loc, shard_of, shard_lock, mutex>>
    /\ UNCHANGED streamVars
    /\ UNCHANGED dbVars
    /\ UNCHANGED reqVars

\* a free worker polls the suspended task again
Wake(p) ==
    /\ pc[p] = "parked"
    /\ WorkerFree
    /\ pc' = [pc EXCEPT ![p] = "relock"]
    /\ UNCHANGED <<cfg, now, rate_map, log, loc, shard_of, shard_lock, mutex>>
    /\ UNCHANGED streamVars
    /\ UNCHANGED dbVars
    /\ UNCHANGED reqVars

\* what a task does once it is inside rate_limit
Advance(p) ==
    \/ Entry(p)
    \/ Lock(p)
    \/ Wake(p)
    \/ RefillStep(p)
    \/ TakeStep(p)
    \/ Unlock(p)
    \/ Return(p)

InitWorkers ==
    /\ cfg \in [enabled : {TRUE}, requests_per_minute : {DefaultRequestsPerMinute},
                 burst : 1..MaxBurst]
    /\ now = 0
    /\ rate_map = EmptyMap
    /\ log = [ip \in Ips |-> <<>>]
    /\ pc = [p \in Tasks |-> "idle"]
    /\ loc = [p \in Tasks |-> NoLocals]
    /\ shard_of \in {f \in [Keys -> 1..NumShards] : f[IpKey(ScenarioIp)] = 1}
    /\ shard_lock = [s \in 1..NumShards |-> 0]
    /\ mutex = [k \in Keys |-> 0]
    /\ NoUsers
    /\ NoStream
    /\ NoRequest

NextWorkers ==
    \/ \E p \in Tasks : \E ip \in Ips : Start(p, ip)
    \/ \E p \in Tasks : Suspend(p)
    \/ \E p \in Tasks : Advance(p)

\* the scheduler is fair: a task that can take its next step takes it
SpecWorkers ==
    InitWorkers /\ [][NextWorkers]_vars /\ \A p \in Tasks : WF_vars(Advance(p))

----------------------------------------------------------------------------
(* OllamaProvider::chat_stream: the generator of try_stream!                *)
(*                                                                          *)
(* A byte of the upstream body is one of: NL (the newline), SP (a white     *)
(* space), the braces of a JSON object, a member of that object             *)
(*   "m"  "message":{"content":"Hi"}      "e"  "message":{"content":""}     *)
(*   "t"  "done":true                     "f"  "done":false                 *)
(*   "n"  "message":{"content":1}         "s"  "done":"yes"                 *)
(*   "o"  "model":"other"                                                   *)
(* "0", a JSON value that is no object,                                     *)
(* or "x", a byte that is no JSON at all.                                   *)

MaxFrames == 3

NL == "\n"
SP == " "
Members == {"m", "e", "n", "t", "f", "s", "o"}

\* the lines an upstream may send: chunks, a done chunk, an object with no
\* member, a blank line, an empty line, garbage, a truncated object
FrameKinds ==
    { <<"{", "m", "f", "}">>, <<"{", "e", "t", "}">>, <<"{", "}">>,
      <<SP>>, <<>>, <<"x">>, <<"{", "m">> }

\* what may follow the last newline: nothing, or an object with no newline after it
Tails == { <<>>, <<"{", "e", "t", "}">> }

RECURSIVE Join(_)
Join(fs) == IF fs = <<>> THEN <<>> ELSE Head(fs) \o <<NL>> \o Join(Tail(fs))

Bodies ==
    { Join(fs) \o tail : fs \in UNION {[1..n -> FrameKinds] : n \in 0..MaxFrames},
                         tail \in Tails }

\* a buggy search: what the buffer holds counts as a line when no newline is in it
NewlinePosOrEnd(buf) ==
    IF \E i \in DOMAIN buf : buf[i] = NL
    THEN CHOOSE i \in DOMAIN buf : buf[i] = NL /\ \A j \in 1..(i - 1) : buf[j] # NL
    ELSE IF buf = <<>> THEN 0 ELSE Len(buf) + 1

\* buffer.iter().position(|&b| b == b'\n'), from 1; 0 for None
NewlinePos(buf) ==
    IF \E i \in DOMAIN buf : buf[i] = NL
    THEN CHOOSE i \in DOMAIN buf : buf[i] = NL /\ \A j \in 1..(i - 1) : buf[j] # NL
    ELSE 0

\* a buggy append: the new bytes replace what the buffer held
ReplaceWithSlice(buf, bytes) == bytes

\* buffer.extend_from_slice(&bytes)
ExtendFromSlice(buf, bytes) == buf \o bytes

\* a test that takes no line for blank
IsBlankNever(line) == FALSE

\* line.trim().is_empty()
IsBlank(line) == \A i \in DOMAIN line : line[i] = SP

RECURSIVE TrimStart(_)
TrimStart(line) ==
    IF line # <<>> /\ Head(line) = SP THEN TrimStart(Tail(line)) ELSE line

RECURSIVE TrimEnd(_)
TrimEnd(line) ==
    IF line # <<>> /\ line[Len(line)] = SP THEN TrimEnd(SubSeq(line, 1, Len(line) - 1)) ELSE line

\* serde_json::from_str(&line): a JSON object between optional white space,
\* as the members it holds; a value that is no object, which holds none;
\* "error" for anything else
FromStr(line) ==
    LET text == TrimEnd(TrimStart(line))
    IN  IF /\ Len(text) >= 2
           /\ text[1] = "{"
           /\ text[Len(text)] = "}"
           /\ \A i \in 2..(Len(text) - 1) : text[i] \in Members
        THEN [valid |-> TRUE, members |-> SubSeq(text, 2, Len(text) - 1)]
        ELSE IF text = <<"0">>
        THEN [valid |-> TRUE, members |-> <<>>]
        ELSE [valid |-> FALSE, members |-> <<>>]

\* v.get("message").and_then(get("content")).and_then(as_str).unwrap_or("")
\* (of two members of one name the later one stands)
ContentOf(v) ==
    IF \E i \in DOMAIN v.members :
          v.members[i] = "m" /\ \A j \in (i + 1)..Len(v.members) : v.members[j] \notin {"e", "n"}
    THEN "Hi" ELSE ""

\* v.get("done").and_then(as_bool).unwrap_or(false)
DoneOf(v) ==
    \E i \in DOMAIN v.members :
        v.members[i] = "t" /\ \A j \in (i + 1)..Len(v.members) : v.members[j] \notin {"f", "s"}

\* the model the payload names, when it names one
OtherModel == <<[c |-> "o", n |-> 1]>>

\* a chunk that takes its model from the payload when the payload names one
ChatChunkUpstreamModel(model, v) ==
    [model |-> IF \E i \in DOMAIN v.members : v.members[i] = "o" THEN OtherModel ELSE model,
     content |-> ContentOf(v), done |-> DoneOf(v)]

\* ChatChunk { model: model.clone(), content: content.to_string(), done },
\* model being req.model.clone()
ChatChunk(model, v) == [model |-> model, content |-> ContentOf(v), done |-> DoneOf(v)]

\* what the stream hands the consumer for one non-blank line: Ok(ChatChunk)
\* or Err(ModelError::Other)
ItemOf(line) ==
    LET v == FromStr(line)
        c == ChatChunk(req.input.model, v)
    IN  IF v.valid
        THEN [kind |-> "chunk", model |-> c.model, content |-> c.content, done |-> c.done]
        ELSE [kind |-> "error", model |-> <<>>, content |-> "Other: JSON parse error", done |-> FALSE]

\* Err(ModelError::Upstream), for a failed read of the body
UpstreamError == [kind |-> "error", model |-> <<>>, content |-> "Upstream", done |-> FALSE]

\* a buggy end: a body that ends is reported as an error
UnexpectedEof ==
    [kind |-> "error", model |-> <<>>, content |-> "Other: unexpected end of body", done |-> FALSE]

\* None: the end of the sequence
EndOfStream == [kind |-> "end", model |-> <<>>, content |-> "", done |-> FALSE]

\* an item as recorded: with the number of upstream reads made since the item
\* before it, counted as 0, 1, or 2 for two or more
Record(item, n) ==
    [kind |-> item.kind, model |-> item.model, content |-> item.content, done |-> item.done,
     reads |-> Min(n, 2)]

\* an item as the consumer sees it
Item(r) == [kind |-> r.kind, model |-> r.model, content |-> r.content, done |-> r.done]

\* a buggy error path: the generator goes on after an error item
AfterItemGoingOn(item) == "yielded"

\* where the generator stands once an item is handed out: suspended at
\* `yield`, or returned by `?` on an error
AfterItem(item) == IF item.kind = "error" THEN "finished" ELSE "yielded"

\* a generator that never gets past its yield
AfterYieldStuck(done) == "yielded"

\* `if done { break; }` leaves the inner `while let` only: the generator goes
\* back to byte_stream.next(); otherwise it looks for the next line
AfterYield(done) == IF done THEN "read" ELSE "scan"

\* a generator that runs on its own, whether or not it is being polled
PolledAlways == TRUE

\* the body of try_stream! runs only inside poll_next: while a consumer is
\* waiting for the next item
Polled == demand

\* the consumer polls the stream for its next item
Pull ==
    /\ spc \notin {"none", "end"}
    /\ ~demand
    /\ demand' = TRUE
    /\ UNCHANGED <<upstream, pos, buffer, spc, reads, trace>>
    /\ UNCHANGED bucketVars
    /\ UNCHANGED reqVars
    /\ UNCHANGED concVars
    /\ UNCHANGED dbVars

\* byte_stream.next() gives Some(Ok(bytes)): the next n bytes of the body
NextBytes(n) ==
    /\ Polled /\ spc = "read"
    /\ pos + n <= Len(upstream)
    /\ buffer' = ExtendFromSlice(buffer, SubSeq(upstream, pos + 1, pos + n))
    /\ pos' = pos + n
    /\ reads' = Min(reads + 1, 2)
    /\ spc' = "scan"
    /\ UNCHANGED <<upstream, demand, trace>>
    /\ UNCHANGED bucketVars
    /\ UNCHANGED reqVars
    /\ UNCHANGED concVars
    /\ UNCHANGED dbVars

\* byte_stream.next() gives None: the body is complete and the stream ends
NextNone ==
    /\ Polled /\ spc = "read"
    /\ pos = Len(upstream)
    /\ trace' = Append(trace, Record(EndOfStream, reads + 1))
    /\ reads' = 0
    /\ spc' = "end"
    /\ demand' = FALSE
    /\ UNCHANGED <<upstream, pos, buffer>>
    /\ UNCHANGED bucketVars
    /\ UNCHANGED reqVars
    /\ UNCHANGED concVars
    /\ UNCHANGED dbVars

\* byte_stream.next() gives Some(Err(e)): `?` hands out Upstream and returns
NextErr ==
    /\ Polled /\ spc = "read"
    /\ trace' = Append(trace, Record(UpstreamError, reads + 1))
    /\ reads' = 0
    /\ spc' = AfterItem(UpstreamError)
    /\ demand' = FALSE
    /\ UNCHANGED <<upstream, pos, buffer>>
    /\ UNCHANGED bucketVars
    /\ UNCHANGED reqVars
    /\ UNCHANGED concVars
    /\ UNCHANGED dbVars

\* one turn of the inner `while let Some(newline_pos)`
Scan ==
    /\ Polled /\ spc = "scan"
    /\ LET n == NewlinePos(buffer)
           line == SubSeq(buffer, 1, n - 1)
           rest == SubSeq(buffer, n + 1, Len(buffer))
       IN  IF n = 0
           THEN spc' = "read" /\ UNCHANGED <<buffer, demand, reads, trace>>
           ELSE IF IsBlank(line)
           THEN buffer' = rest /\ UNCHANGED <<spc, demand, reads, trace>>
           ELSE /\ buffer' = rest
                /\ trace' = Append(trace, Record(ItemOf(line), reads))
                /\ reads' = 0
                /\ spc' = AfterItem(ItemOf(line))
                /\ demand' = FALSE
    /\ UNCHANGED <<upstream, pos>>
    /\ UNCHANGED bucketVars
    /\ UNCHANGED reqVars
    /\ UNCHANGED concVars
    /\ UNCHANGED dbVars

\* the generator is polled again after a yield: `if done { break; }`
Resume ==
    /\ Polled /\ spc = "yielded"
    /\ spc' = AfterYield(trace[Len(trace)].done)
    /\ UNCHANGED <<upstream, pos, buffer, demand, reads, trace>>
    /\ UNCHANGED bucketVars
    /\ UNCHANGED reqVars
    /\ UNCHANGED concVars
    /\ UNCHANGED dbVars

\* the generator has returned after an error item: the next poll gives None
Finish ==
    /\ Polled /\ spc = "finished"
    /\ trace' = Append(trace, Record(EndOfStream, reads))
    /\ spc' = "end"
    /\ demand' = FALSE
    /\ UNCHANGED <<upstream, pos, buffer, reads>>
    /\ UNCHANGED bucketVars
    /\ UNCHANGED reqVars
    /\ UNCHANGED concVars
    /\ UNCHANGED dbVars

\* the state once chat_stream has returned Ok(stream), for any upstream body
InitStream ==
    /\ cfg = DefaultRateLimit
    /\ now = 0
    /\ rate_map = EmptyMap
    /\ log = [ip \in Ips |-> <<>>]
    /\ NoTasks
    /\ NoUsers
    /\ NoRequest
    /\ upstream \in Bodies
    /\ pos = 0
    /\ buffer = <<>>
    /\ spc = "read"
    /\ demand = FALSE
    /\ reads = 0
    /\ trace = <<>>

NextStream ==
    \/ Pull
    \/ \E n \in 1..Len(upstream) : NextBytes(n)
    \/ NextNone
    \/ NextErr
    \/ Scan
    \/ Resume
    \/ Finish

SpecStream == InitStream /\ [][NextStream]_vars

MaxChatFrames == 2

\* the bodies an upstream may answer a chat request with
ChatFrameKinds == { <<"{", "m", "f", "}">>, <<"{", "e", "t", "}">>, <<SP>>, <<"x">> }

ChatBodies ==
    { Join(fs) : fs \in UNION {[1..n -> ChatFrameKinds] : n \in 0..MaxChatFrames} }

\* The same stream with a consumer that keeps pulling and an upstream that
\* keeps answering: a pull that can be made is made (the `while let` of chat,
\* hyper writing out the Sse body), and the generator, woken by the arrival
\* of an increment, of the end or of a failure, is polled by the runtime.
Generate ==
    \/ \E n \in 1..Len(upstream) : NextBytes(n)
    \/ NextNone
    \/ NextErr
    \/ Scan
    \/ Resume
    \/ Finish

\* the state once chat_stream has returned Ok(stream), for the bodies an
\* upstream may answer a chat request with
InitStreamFair ==
    /\ cfg = DefaultRateLimit
    /\ now = 0
    /\ rate_map = EmptyMap
    /\ log = [ip \in Ips |-> <<>>]
    /\ NoTasks
    /\ NoUsers
    /\ NoRequest
    /\ upstream \in ChatBodies
    /\ pos = 0
    /\ buffer = <<>>
    /\ spc = "read"
    /\ demand = FALSE
    /\ reads = 0
    /\ trace = <<>>

SpecStreamFair ==
    InitStreamFair /\ [][NextStream]_vars /\ WF_vars(Pull) /\ WF_vars(Generate)

----------------------------------------------------------------------------
(* Validation of a chat request (crates/api/src/validation.rs, validate_chat). *)
(* A string is a sequence of runs [c, n]: the character c repeated n times,    *)
(* so that strings of 8000 characters stay small.                              *)

MaxModelLen == 100
MaxMessages == 64
MaxContentLen == 8000

\* the characters used: a letter, a digit, the four marks allowed in a model
\* name, a slash, a space, and a letter that takes two bytes in UTF-8
Chars == {"a", "7", "-", "_", ":", ".", "/", " ", "U+00E9"}

\* char::len_utf8
LenUtf8(c) == IF c = "U+00E9" THEN 2 ELSE 1

\* char::is_alphanumeric
IsAlphanumeric(c) == c \in {"a", "7", "U+00E9"}

\* char::is_whitespace
IsWhitespace(c) == c = " "

Run(c, n) == IF n = 0 THEN <<>> ELSE <<[c |-> c, n |-> n]>>

\* str::len: the length in bytes
RECURSIVE StrLen(_)
StrLen(str) ==
    IF str = <<>> THEN 0 ELSE Head(str).n * LenUtf8(Head(str).c) + StrLen(Tail(str))

\* str::is_empty
StrIsEmpty(str) == StrLen(str) = 0

\* str::trim().is_empty()
TrimIsEmpty(str) == \A i \in DOMAIN str : IsWhitespace(str[i].c)

Ok == [ok |-> TRUE, error |-> "", message |-> ""]

Unprocessable(msg) == [ok |-> FALSE, error |-> "Unprocessable", message |-> msg]

\* the characters validate_model_name lets through
ModelChar(c) == IsAlphanumeric(c) \/ c \in {"-", "_", ":", "."}

\* validate_model_name (validation.rs 75-95)
ValidateModelName(model) ==
    IF TrimIsEmpty(model) THEN Unprocessable("model name is required")
    ELSE IF StrLen(model) > MaxModelLen THEN Unprocessable("model name too long")
    ELSE IF ~(\A i \in DOMAIN model : ModelChar(model[i].c))
    THEN Unprocessable("invalid characters in model name")
    ELSE Ok

\* a content check that is off by one: content of max_length is refused
ValidateMessageContentOffByOne(content, max_length) ==
    IF StrIsEmpty(content) THEN Unprocessable("message content cannot be empty")
    ELSE IF StrLen(content) >= max_length
    THEN Unprocessable("message too long (max " \o ToString(max_length) \o " characters)")
    ELSE Ok

\* validate_message_content (validation.rs 57-72)
ValidateMessageContent(content, max_length) ==
    IF StrIsEmpty(content) THEN Unprocessable("message content cannot be empty")
    ELSE IF StrLen(content) > max_length
    THEN Unprocessable("message too long (max " \o ToString(max_length) \o " characters)")
    ELSE Ok

\* the `for m in &input.messages` loop of validate_chat: the first failure, or Ok
RECURSIVE ValidateMessages(_)
ValidateMessages(messages) ==
    IF messages = <<>> THEN Ok
    ELSE LET r == ValidateMessageContent(Head(messages).content, MaxContentLen)
         IN  IF ~r.ok THEN r ELSE ValidateMessages(Tail(messages))

\* validate_chat (routes.rs 423-438)
ValidateChat(input) ==
    LET m == ValidateModelName(input.model)
    IN  IF ~m.ok THEN m
        ELSE IF input.messages = <<>> THEN Unprocessable("messages required")
        ELSE IF Len(input.messages) > MaxMessages THEN Unprocessable("too many messages (max 64)")
        ELSE ValidateMessages(input.messages)

----------------------------------------------------------------------------
(* The provider calls and the error type of the handlers *)

\* two texts the upstream's errors can carry
Details == {"e1", "e2"}

\* what the upstream does with the one HTTP request of a provider call
SendOutcomes == {"ok", "connect_error", "timeout", "status_error"}

\* ModelError's Display (lib.rs 9-11)
UpstreamText(d) == "Upstream request failed: " \o d

OtherText(d) == "Other: JSON parse error: " \o d

\* a chat_stream open that takes any response for a success
ChatStreamOpenAnyStatus(outcome, d) ==
    IF outcome \in {"ok", "status_error"}
    THEN [ok |-> TRUE, error |-> "", text |-> "", requests |-> 1]
    ELSE [ok |-> FALSE, error |-> "Upstream", text |-> UpstreamText(d), requests |-> 1]

\* OllamaProvider::chat_stream up to Ok(Box::pin(stream)): one send(); a
\* failed send and a non-success status both return Err(Upstream)
ChatStreamOpen(outcome, d) ==
    IF outcome = "ok"
    THEN [ok |-> TRUE, error |-> "", text |-> "", requests |-> 1]
    ELSE IF outcome = "status_error"
    THEN [ok |-> FALSE, error |-> "Upstream", text |-> UpstreamText("HTTP " \o d), requests |-> 1]
    ELSE [ok |-> FALSE, error |-> "Upstream", text |-> UpstreamText(d), requests |-> 1]

\* what the upstream does with the request of list_models: as above, or a
\* success whose body is no JSON
ListOutcomes == SendOutcomes \cup {"bad_json"}

\* OllamaProvider::list_models (lib.rs 45-78)
ProviderListModels(outcome, d) ==
    IF outcome = "ok"
    THEN [ok |-> TRUE, error |-> "", text |-> "", requests |-> 1]
    ELSE IF outcome = "status_error"
    THEN [ok |-> FALSE, error |-> "Upstream", text |-> UpstreamText("HTTP " \o d), requests |-> 1]
    ELSE [ok |-> FALSE, error |-> "Upstream", text |-> UpstreamText(d), requests |-> 1]

\* ApiError::into_response (error.rs 21-35): status, code and Display text
RateLimited == [ok |-> FALSE, error |-> "RateLimited", message |-> ""]

Internal == [ok |-> FALSE, error |-> "Internal", message |-> ""]

Unauthorized == [ok |-> FALSE, error |-> "Unauthorized", message |-> ""]

StatusOf(e) ==
    IF e.error = "Unprocessable" THEN 422
    ELSE IF e.error = "RateLimited" THEN 429
    ELSE IF e.error = "Unauthorized" THEN 401
    ELSE 500

CodeOf(e) ==
    IF e.error = "Unprocessable" THEN "unprocessable"
    ELSE IF e.error = "RateLimited" THEN "rate_limited"
    ELSE IF e.error = "Unauthorized" THEN "unauthorized"
    ELSE "internal_error"

DisplayOf(e) ==
    IF e.error = "Unprocessable" THEN "Unprocessable: " \o e.message
    ELSE IF e.error = "RateLimited" THEN "Too Many Requests"
    ELSE IF e.error = "Unauthorized" THEN "Unauthorized"
    ELSE "Internal Server Error"

IntoResponse(e) ==
    [status |-> StatusOf(e), body |-> <<[code |-> CodeOf(e), message |-> DisplayOf(e)]>>]

----------------------------------------------------------------------------
(* chat_stream over one frame: every JSON value the frame may hold, for       *)
(* requests naming different models                                           *)

MaxMembers == 2

\* the frames: objects of up to MaxMembers members, a value that is no
\* object, garbage
DecodeLines ==
    { <<"{">> \o ms \o <<"}">> : ms \in UNION {[1..n -> Members] : n \in 0..MaxMembers} }
        \cup { <<"0">>, <<"x">> }

\* the models a request may name
DecodeModels == { <<[c |-> "a", n |-> 5]>>, <<[c |-> "o", n |-> 1]>> }

\* the state once chat_stream has returned Ok(stream) for a request naming
\* model m, the upstream's body being one frame
InitDecode ==
    /\ cfg = DefaultRateLimit
    /\ now = 0
    /\ rate_map = EmptyMap
    /\ log = [ip \in Ips |-> <<>>]
    /\ NoTasks
    /\ NoUsers
    /\ detail = ""
    /\ \E m \in DecodeModels : req = [NoRequestRecord EXCEPT !.input.model = m]
    /\ rpc = "idle"
    /\ steps = <<>>
    /\ consumed = 0
    /\ out = <<>>
    /\ events = <<>>
    /\ response = NoResponse
    /\ served = 0
    /\ \E line \in DecodeLines : upstream = line \o <<NL>>
    /\ pos = 0
    /\ buffer = <<>>
    /\ spc = "read"
    /\ demand = FALSE
    /\ reads = 0
    /\ trace = <<>>

SpecDecode == InitDecode /\ [][NextStream]_vars

----------------------------------------------------------------------------
(* The request handlers: chat and chat_stream_sse of crates/api/src/routes.rs, *)
(* chat of api/src/routes.rs (called api_chat here), list_models and health.   *)
(* One request is handled at a time.                                           *)

MaxRequests == 2

ChatHandlers == {"chat", "chat_stream_sse", "api_chat"}

Handlers == ChatHandlers \cup {"list_models", "health", "readiness"}

\* the handlers that collect the stream into one response
Aggregating == {"chat", "api_chat"}

User(content) == [role |-> "user", content |-> content]

\* a request that passes validate_chat
GoodInput == [model |-> Run("a", 5) \o Run(":", 1) \o Run("7", 1), messages |-> <<User(Run("a", 2))>>]

\* Scenario D: a request with zero messages
ScenarioD == [model |-> Run("a", 5), messages |-> <<>>]

NoInput == [model |-> <<>>, messages |-> <<>>]

ChatInputs == {GoodInput, ScenarioD, [GoodInput EXCEPT !.model = Run(" ", 1)]}

InputsOf(h) == IF h \in ChatHandlers THEN ChatInputs ELSE {NoInput}

\* the rate limiter settings of these runs: one token, one per minute
ChatRateLimit == [enabled |-> TRUE, requests_per_minute |-> 1, burst |-> 1]

\* what the database does with a query: it answers, or the query fails
DbOutcomes == {"ok", "error"}

\* where each handler starts
FirstStep(h) ==
    IF h \in {"chat", "chat_stream_sse"} THEN "validate"
    ELSE IF h \in {"api_chat", "list_models"} THEN "rate_limit"
    ELSE IF h = "health" THEN "select"
    ELSE "ready"

\* a call made by the handler, as recorded: its result, and for a provider
\* call what the upstream did and how many HTTP requests were sent
Step(call, r) ==
    [call |-> call, ok |-> r.ok, error |-> r.error, outcome |-> "", requests |-> 0]

ProviderStep(call, outcome, r) ==
    [call |-> call, ok |-> r.ok, error |-> r.error, outcome |-> outcome, requests |-> r.requests]

\* the handler returns: the response goes out
Respond(resp) ==
    /\ response' = resp
    /\ rpc' = "idle"
    /\ served' = served + 1

\* a request arrives and axum calls its handler
Receive(h, ip, input) ==
    /\ rpc \in {"idle", "gone"}
    /\ served < MaxRequests
    /\ req' = [handler |-> h, ip |-> ip, input |-> input, before |-> rate_map]
    /\ rpc' = FirstStep(h)
    /\ steps' = <<>>
    /\ consumed' = 0
    /\ out' = <<>>
    /\ events' = <<>>
    /\ response' = NoResponse
    /\ upstream' = <<>>
    /\ pos' = 0
    /\ buffer' = <<>>
    /\ spc' = "none"
    /\ demand' = FALSE
    /\ reads' = 0
    /\ trace' = <<>>
    /\ UNCHANGED <<detail, served>>
    /\ UNCHANGED bucketVars
    /\ UNCHANGED concVars
    /\ UNCHANGED dbVars

\* validate_chat(&input)? (routes.rs 198, 248)
Validate ==
    /\ rpc = "validate"
    /\ LET r == ValidateChat(req.input)
       IN  /\ steps' = Append(steps, Step("validate", r))
           /\ IF r.ok
              THEN rpc' = "open" /\ UNCHANGED <<response, served>>
              ELSE Respond(IntoResponse(r))
    /\ UNCHANGED <<detail, req, consumed, out, events>>
    /\ UNCHANGED bucketVars
    /\ UNCHANGED concVars
    /\ UNCHANGED dbVars
    /\ UNCHANGED streamVars

\* rate_limit(&state, addr.ip()).await? (api/src/routes.rs 20, 32; routes.rs 171)
Acquire ==
    /\ rpc = "rate_limit"
    /\ RateLimitWith(req.ip, IpKey(req.ip), cfg.enabled)
    /\ LET allowed == log'[req.ip][Len(log'[req.ip])].ok
           r == IF allowed THEN Ok ELSE RateLimited
       IN  /\ steps' = Append(steps, Step("rate_limit", r))
           /\ IF allowed
              THEN /\ rpc' = IF req.handler = "list_models" THEN "list" ELSE "open"
                   /\ UNCHANGED <<response, served>>
              ELSE Respond(IntoResponse(r))
    /\ UNCHANGED <<cfg, now>>
    /\ UNCHANGED <<detail, req, consumed, out, events>>
    /\ UNCHANGED concVars
    /\ UNCHANGED dbVars
    /\ UNCHANGED streamVars

\* state.provider.chat_stream(..).await.map_err(|e| ApiError::Internal)?
\* (routes.rs 207-222, 257-272; api/src/routes.rs 33)
OpenStream(outcome, body) ==
    /\ rpc = "open"
    /\ LET r == ChatStreamOpen(outcome, detail)
       IN  /\ steps' = Append(steps, ProviderStep("chat_stream", outcome, r))
           /\ IF r.ok
              THEN /\ upstream' = body
                   /\ spc' = "read"
                   /\ rpc' = "streaming"
                   /\ response' = IF req.handler \in Aggregating THEN response
                                  ELSE [status |-> 200, body |-> <<>>]
                   /\ UNCHANGED served
              ELSE /\ Respond(IntoResponse(Internal))
                   /\ UNCHANGED <<upstream, spc>>
    /\ UNCHANGED <<pos, buffer, demand, reads, trace>>
    /\ UNCHANGED <<detail, req, consumed, out, events>>
    /\ UNCHANGED bucketVars
    /\ UNCHANGED concVars
    /\ UNCHANGED dbVars

\* readiness (routes.rs 45-47)
Readiness ==
    /\ rpc = "ready"
    /\ Respond([status |-> 200, body |-> <<"ready">>])
    /\ UNCHANGED <<detail, req, steps, consumed, out, events>>
    /\ UNCHANGED bucketVars
    /\ UNCHANGED concVars
    /\ UNCHANGED dbVars
    /\ UNCHANGED streamVars

\* sqlx::query("SELECT 1 as health_check").fetch_one(&state.db) in health
\* (routes.rs 75-92)
SelectOne(db) ==
    IF db = "ok" THEN [ok |-> TRUE, error |-> "", text |-> "", requests |-> 0]
    ELSE [ok |-> FALSE, error |-> "Database", text |-> "database error", requests |-> 0]

\* the first check of health: the database
DbCheck(db) ==
    /\ rpc = "select"
    /\ steps' = Append(steps, ProviderStep("select", db, SelectOne(db)))
    /\ rpc' = "list"
    /\ UNCHANGED <<detail, req, consumed, out, events, response, served>>
    /\ UNCHANGED bucketVars
    /\ UNCHANGED concVars
    /\ UNCHANGED dbVars
    /\ UNCHANGED streamVars

\* a health that is content with one of its two checks
HealthResponseEither(db, r) ==
    [status |-> IF db.ok \/ r.ok THEN 200 ELSE 503,
     body |-> <<[status |-> IF db.ok \/ r.ok THEN "healthy" ELSE "unhealthy",
                 database |-> [healthy |-> db.ok, error |-> db.text],
                 ollama |-> [healthy |-> r.ok, error |-> r.text]]>>]

\* health's answer (routes.rs 111-132), for the results of its two checks
HealthResponse(db, r) ==
    [status |-> IF db.ok /\ r.ok THEN 200 ELSE 503,
     body |-> <<[status |-> IF db.ok /\ r.ok THEN "healthy" ELSE "unhealthy",
                 database |-> [healthy |-> db.ok, error |-> db.text],
                 ollama |-> [healthy |-> r.ok, error |-> r.text]]>>]

\* state.provider.list_models().await in list_models (routes.rs 172-176) and
\* in health (routes.rs 96-110)
ListModels(outcome) ==
    /\ rpc = "list"
    /\ LET r == ProviderListModels(outcome, detail)
       IN  /\ steps' = Append(steps, ProviderStep("list_models", outcome, r))
           /\ IF req.handler = "health"
              THEN Respond(HealthResponse(SelectOne(steps[1].outcome), r))
              ELSE IF r.ok THEN Respond([status |-> 200, body |-> <<>>])
              ELSE Respond(IntoResponse(Internal))
    /\ UNCHANGED <<detail, req, consumed, out, events>>
    /\ UNCHANGED bucketVars
    /\ UNCHANGED concVars
    /\ UNCHANGED dbVars
    /\ UNCHANGED streamVars

\* the consumer of the stream asks for the next item: stream.next().await in
\* chat, hyper polling the Sse body in chat_stream_sse
Poll ==
    /\ rpc = "streaming"
    /\ consumed = Len(trace)
    /\ Pull

\* ChatOut { model, content, done } (routes.rs 233-237)
ChatOut(c) == [model |-> c.model, content |-> c.content, done |-> c.done]

\* a push that puts the new element first
PushFront(v, x) == <<x>> \o v

\* Vec::push
Push(v, x) == Append(v, x)

\* one turn of `while let Some(chunk) = stream.next().await` in chat
\* (routes.rs 225-239): a chunk is pushed, an error returns Internal, the
\* end returns Json(out)
Collect ==
    /\ rpc = "streaming"
    /\ req.handler \in Aggregating
    /\ consumed < Len(trace)
    /\ LET item == trace[consumed + 1]
       IN  IF item.kind = "chunk"
           THEN /\ out' = Push(out, ChatOut(item))
                /\ consumed' = consumed + 1
                /\ UNCHANGED <<rpc, response, served>>
           ELSE IF item.kind = "error"
           THEN /\ Respond(IntoResponse(Internal))
                /\ consumed' = consumed + 1
                /\ UNCHANGED out
           ELSE /\ Respond([status |-> 200, body |-> out])
                /\ consumed' = consumed + 1
                /\ UNCHANGED out
    /\ UNCHANGED <<detail, req, steps, events>>
    /\ UNCHANGED bucketVars
    /\ UNCHANGED concVars
    /\ UNCHANGED dbVars
    /\ UNCHANGED streamVars

\* e.to_string() of an error item of the stream, the upstream's text being d
ErrorTextOf(item, d) ==
    IF Item(item) = UpstreamError THEN UpstreamText(d) ELSE OtherText(d)

\* the closure of stream.map in chat_stream_sse (routes.rs 273-282), the
\* upstream's text being d
SseEventOf(item, d) ==
    IF item.kind = "chunk"
    THEN [event |-> "chunk", data |-> [model |-> item.model, content |-> item.content,
                                        done |-> item.done, error |-> ""]]
    ELSE [event |-> "error", data |-> [model |-> <<>>, content |-> "", done |-> FALSE,
                                        error |-> ErrorTextOf(item, d)]]

\* an event mapping that turns an error item into a failure of the event stream
SseEventFailing(item) ==
    IF item.kind = "chunk"
    THEN [event |-> "chunk", data |-> [model |-> item.model, content |-> item.content,
                                        done |-> item.done, error |-> ""]]
    ELSE [event |-> "failure", data |-> [model |-> <<>>, content |-> "", done |-> FALSE, error |-> ""]]

\* the event an item of the stream is mapped to
SseEvent(item) == SseEventOf(item, detail)

\* an item of the stream goes through the map of chat_stream_sse and out as
\* an event; the end of the stream ends the response body
Emit ==
    /\ rpc = "streaming"
    /\ req.handler = "chat_stream_sse"
    /\ consumed < Len(trace)
    /\ LET item == trace[consumed + 1]
       IN  IF item.kind = "end"
           THEN /\ rpc' = "idle"
                /\ served' = served + 1
                /\ UNCHANGED events
           ELSE /\ events' = Append(events, SseEvent(item))
                /\ UNCHANGED <<rpc, served>>
    /\ consumed' = consumed + 1
    /\ UNCHANGED <<detail, req, steps, out, response>>
    /\ UNCHANGED bucketVars
    /\ UNCHANGED concVars
    /\ UNCHANGED dbVars
    /\ UNCHANGED streamVars

InitChat ==
    /\ cfg = ChatRateLimit
    /\ now = 0
    /\ rate_map = EmptyMap
    /\ log = [ip \in Ips |-> <<>>]
    /\ NoTasks
    /\ NoUsers
    /\ NoStream
    /\ detail \in Details
    /\ req = NoRequestRecord
    /\ rpc = "idle"
    /\ steps = <<>>
    /\ consumed = 0
    /\ out = <<>>
    /\ events = <<>>
    /\ response = NoResponse
    /\ served = 0

NextChat ==
    \/ \E h \in Handlers : \E input \in InputsOf(h) : Receive(h, ScenarioIp, input)
    \/ Validate
    \/ Acquire
    \/ \E outcome \in SendOutcomes : \E body \in ChatBodies : OpenStream(outcome, body)
    \/ \E outcome \in ListOutcomes : ListModels(outcome)
    \/ \E db \in DbOutcomes : DbCheck(db)
    \/ Readiness
    \/ Poll
    \/ \E n \in 1..Len(upstream) : NextBytes(n)
    \/ NextNone
    \/ NextErr
    \/ Scan
    \/ Resume
    \/ Finish
    \/ Collect
    \/ Emit

SpecChat == InitChat /\ [][NextChat]_vars

----------------------------------------------------------------------------
(* The client of /v1/chat/stream may go away while events are being sent.      *)

\* a stream handed to a task of its own, which outlives the response body
DropDetached(s) == s

\* drop of the stream: the generator of try_stream! owns byte_stream, the
\* body of the upstream response, and is owned by the Sse body through
\* stream.map; whatever state it was suspended in, it is gone with the body
Drop(s) == "dropped"

\* the client goes away: hyper drops the response body, Sse::new(mapped)
Disconnect ==
    /\ rpc = "streaming"
    /\ req.handler = "chat_stream_sse"
    /\ rpc' = "gone"
    /\ served' = served + 1
    /\ spc' = Drop(spc)
    /\ buffer' = IF Drop(spc) = "dropped" THEN <<>> ELSE buffer
    /\ demand' = IF Drop(spc) = "dropped" THEN FALSE ELSE demand
    /\ UNCHANGED <<upstream, pos, reads, trace>>
    /\ UNCHANGED <<detail, req, steps, consumed, out, events, response>>
    /\ UNCHANGED bucketVars
    /\ UNCHANGED concVars
    /\ UNCHANGED dbVars

NextCancel ==
    \/ \E input \in ChatInputs : Receive("chat_stream_sse", ScenarioIp, input)
    \/ Validate
    \/ \E outcome \in SendOutcomes : \E body \in ChatBodies : OpenStream(outcome, body)
    \/ Poll
    \/ \E n \in 1..Len(upstream) : NextBytes(n)
    \/ NextNone
    \/ NextErr
    \/ Scan
    \/ Resume
    \/ Finish
    \/ Emit
    \/ Disconnect

SpecCancel == InitChat /\ [][NextCancel]_vars

----------------------------------------------------------------------------
(* The protected routes: /v1/chat and /v1/chat/stream behind require_auth      *)

\* cfg.security.jwt_secret and cfg.security.jwt_issuer
JwtSecret == "secret"
JwtIssuer == "issuer"

\* a token, by the key it is signed with, the issuer it names and whether
\* its exp has passed
Tokens == [key : {JwtSecret, "other"}, iss : {JwtIssuer, "other"}, expired : BOOLEAN]

NoHeader == [scheme |-> "", token |-> <<>>]

\* the Authorization header of a request: absent, or a scheme and a token
Headers == {NoHeader} \cup [scheme : {"Bearer", "Basic", "bearer"}, token : Tokens]

\* verify_jwt (auth lib.rs 118-128): HS256 under the secret, the issuer set
\* in the validation, exp checked by default
VerifyJwt(token, secret, issuer) ==
    token.key = secret /\ token.iss = issuer /\ ~token.expired

\* what the extensions of a request hold when the route layer runs: what
\* into_make_service_with_connect_info and SetRequestIdLayer insert.  The
\* state of the router is handed to handlers and is not among them; no
\* layer of build_app or routes inserts it.
RequestExtensions == {"ConnectInfo", "RequestId"}

\* require_auth (auth_middleware.rs 20-67)
RequireAuth(header) ==
    IF header = NoHeader THEN Unauthorized
    ELSE IF header.scheme # "Bearer" THEN Unauthorized
    ELSE IF "AppState" \notin RequestExtensions THEN Internal
    ELSE IF ~VerifyJwt(header.token, JwtSecret, JwtIssuer) THEN Unauthorized
    ELSE Ok

\* a request for a protected route arrives: the route layer runs first
Arrive(h, ip, input, header) ==
    /\ rpc \in {"idle", "gone"}
    /\ served < MaxRequests
    /\ req' = [handler |-> h, ip |-> ip, input |-> input, before |-> rate_map,
               authorization |-> header]
    /\ rpc' = "auth"
    /\ steps' = <<>>
    /\ consumed' = 0
    /\ out' = <<>>
    /\ events' = <<>>
    /\ response' = NoResponse
    /\ UNCHANGED <<detail, served>>
    /\ UNCHANGED bucketVars
    /\ UNCHANGED concVars
    /\ UNCHANGED dbVars
    /\ UNCHANGED streamVars

\* require_auth answers with its error, or calls next.run(req): the handler
Authenticate ==
    /\ rpc = "auth"
    /\ LET r == RequireAuth(req.authorization)
       IN  /\ steps' = Append(steps, Step("require_auth", r))
           /\ IF r.ok
              THEN rpc' = FirstStep(req.handler) /\ UNCHANGED <<response, served>>
              ELSE Respond(IntoResponse(r))
    /\ UNCHANGED <<detail, req, consumed, out, events>>
    /\ UNCHANGED bucketVars
    /\ UNCHANGED concVars
    /\ UNCHANGED dbVars
    /\ UNCHANGED streamVars

NextAuth ==
    \/ \E h \in {"chat", "chat_stream_sse"} : \E input \in ChatInputs : \E header \in Headers :
          Arrive(h, ScenarioIp, input, header)
    \/ Authenticate

SpecAuth == InitChat /\ [][NextAuth]_vars

----------------------------------------------------------------------------
(* signup and login.  An email or a password is the sequence of its          *)
(* characters.                                                                *)

MaxUserRequests == 3

MaxEmailLen == 190
MinPasswordLen == 8
MaxPasswordLen == 128

\* the letters and digits the inputs are made of
Letters == {"a", "b", "d", "e", "i", "k", "l", "m", "o", "p", "r", "s", "t", "w", "x"}
Digits == {"0", "1", "2", "3"}

\* EMAIL_REGEX (validation.rs 6-8):
\* ^[a-zA-Z0-9._%+-]+@[a-zA-Z0-9.-]+\.[a-zA-Z]{2,}$
EmailRegexIsMatch(email) ==
    \E i, j \in DOMAIN email :
        /\ i > 1 /\ email[i] = "@"
        /\ j > i + 1 /\ email[j] = "."
        /\ \A k \in 1..(i - 1) : email[k] \in Letters \cup Digits \cup {".", "_", "%", "+", "-"}
        /\ \A k \in (i + 1)..(j - 1) : email[k] \in Letters \cup Digits \cup {".", "-"}
        /\ Len(email) - j >= 2
        /\ \A k \in (j + 1)..Len(email) : email[k] \in Letters

\* validate_email (validation.rs 11-27)
ValidateEmail(email) ==
    IF email = <<>> THEN Unprocessable("email is required")
    ELSE IF Len(email) > MaxEmailLen THEN Unprocessable("email too long (max 190 characters)")
    ELSE IF ~EmailRegexIsMatch(email) THEN Unprocessable("invalid email format")
    ELSE Ok

\* a validation that lets every password through
ValidatePasswordAny(password) == Ok

\* validate_password (validation.rs 30-54)
ValidatePassword(password) ==
    IF Len(password) < MinPasswordLen
    THEN Unprocessable("password must be at least 8 characters")
    ELSE IF Len(password) > MaxPasswordLen
    THEN Unprocessable("password too long (max 128 characters)")
    ELSE IF ~(\E i \in DOMAIN password : password[i] \in Letters)
              \/ ~(\E i \in DOMAIN password : password[i] \in Digits)
    THEN Unprocessable("password must contain at least one letter and one number")
    ELSE Ok

\* the emails and passwords of the requests
Emails == { <<"a", "@", "x", ".", "i", "o">>, <<"b", "@", "x", ".", "i", "o">>, <<"a", "@", "x">> }

Passwords ==
    { <<"p", "a", "s", "s", "w", "0", "r", "d">>, <<"l", "e", "t", "m", "e", "1", "2", "3">>,
      <<"w", "e", "a", "k">> }

Credentials == [email : Emails, password : Passwords]

\* the salts SaltString::generate may give
Salts == {"salt1", "salt2"}

\* hash_password (auth lib.rs 35-41): the PHC string, by its salt and the
\* password it is the Argon2id digest of
HashPassword(raw, salt) == [salt |-> salt, digest |-> raw]

\* a verification that lets every password through
VerifyPasswordAny(raw, hash) == TRUE

\* verify_password (auth lib.rs 44-79): the password hashed under the salt
\* of the stored string gives the stored string
VerifyPassword(raw, hash) == HashPassword(raw, hash.salt) = hash

\* generate_tokens (auth lib.rs 91-116): HS256 under the secret
GenerateTokens(user_id, issuer, secret) ==
    [key |-> secret, iss |-> issuer, expired |-> FALSE, sub |-> user_id]

\* INSERT INTO users (id,email,password_hash): the table has a unique
\* constraint on email
InsertUser(table, row) ==
    IF \E r \in table : r.email = row.email
    THEN [ok |-> FALSE, unique_violation |-> TRUE, table |-> table]
    ELSE [ok |-> TRUE, unique_violation |-> FALSE, table |-> table \cup {row}]

\* SELECT id, email, password_hash FROM users WHERE email=$1
SelectUser(table, email) == {r \in table : r.email = email}

\* the rate limiter settings of these runs: two tokens, one per minute
UserRateLimit == [enabled |-> TRUE, requests_per_minute |-> 1, burst |-> 2]

\* a signup that answers every failed INSERT with the internal error
SignupInsertErrorInternal(r) == Internal

\* the Err arm of the INSERT in signup (routes.rs 338-349)
SignupInsertError(r) ==
    IF r.unique_violation THEN Unprocessable("email already registered") ELSE Internal

\* the handler is done: its request, the calls it made and its answer
Answer(h, ip, input, db, called, resp) ==
    /\ req' = [handler |-> h, ip |-> ip, input |-> input, before |-> rate_map,
               users_before |-> users, db |-> db]
    /\ steps' = called
    /\ response' = resp
    /\ rpc' = "idle"
    /\ served' = served + 1

\* signup (routes.rs 305-351)
Signup(ip, input, db, salt) ==
    /\ rpc = "idle"
    /\ served < MaxUserRequests
    /\ LET e == ValidateEmail(input.email)
           p == ValidatePassword(input.password)
           row == [id |-> Cardinality(users) + 1, email |-> input.email,
                   password_hash |-> HashPassword(input.password, salt)]
           r == IF db = "ok" THEN InsertUser(users, row)
                ELSE [ok |-> FALSE, unique_violation |-> FALSE, table |-> users]
       IN  IF ~e.ok
           THEN /\ Answer("signup", ip, input, db, <<Step("validate_email", e)>>, IntoResponse(e))
                /\ UNCHANGED <<rate_map, log, users>>
           ELSE IF ~p.ok
           THEN /\ Answer("signup", ip, input, db,
                          <<Step("validate_email", e), Step("validate_password", p)>>,
                          IntoResponse(p))
                /\ UNCHANGED <<rate_map, log, users>>
           ELSE /\ RateLimitWith(ip, IpKey(ip), cfg.enabled)
                /\ IF ~log'[ip][Len(log'[ip])].ok
                   THEN /\ Answer("signup", ip, input, db,
                                  <<Step("validate_email", e), Step("validate_password", p),
                                    Step("rate_limit", RateLimited)>>,
                                  IntoResponse(RateLimited))
                        /\ UNCHANGED users
                   ELSE /\ users' = r.table
                        /\ Answer("signup", ip, input, db,
                                  <<Step("validate_email", e), Step("validate_password", p),
                                    Step("rate_limit", Ok),
                                    Step("insert", IF r.ok THEN Ok ELSE SignupInsertError(r))>>,
                                  IF r.ok
                                  THEN [status |-> 200,
                                        body |-> <<[id |-> row.id, email |-> row.email]>>]
                                  ELSE IntoResponse(SignupInsertError(r)))
    /\ UNCHANGED <<cfg, now>>
    /\ UNCHANGED <<detail, consumed, out, events>>
    /\ UNCHANGED concVars
    /\ UNCHANGED streamVars

\* login (routes.rs 353-421).  A stored password_hash was made by signup
\* with the parameters verify_password compares with, so nothing is rehashed.
\* a login that tells the caller that no user has the email
LoginNoUserNotFound == [ok |-> FALSE, error |-> "NotFound", message |-> ""]

\* the error login returns when the query found no user with the email
LoginNoUser == Unauthorized

\* the error login returns when the password does not verify
LoginInvalidPassword == Unauthorized

Login(ip, input, db) ==
    /\ rpc = "idle"
    /\ served < MaxUserRequests
    /\ RateLimitWith(ip, IpKey(ip), cfg.enabled)
    /\ LET rec_opt == SelectUser(users, input.email)
           rec == CHOOSE r \in rec_opt : TRUE
           select == [ok |-> db = "ok", error |-> IF db = "ok" THEN "" ELSE "Internal"]
       IN  IF ~log'[ip][Len(log'[ip])].ok
           THEN Answer("login", ip, input, db, <<Step("rate_limit", RateLimited)>>,
                       IntoResponse(RateLimited))
           ELSE IF db # "ok"
           THEN Answer("login", ip, input, db,
                       <<Step("rate_limit", Ok), Step("select", select)>>,
                       IntoResponse(Internal))
           ELSE IF rec_opt = {}
           THEN Answer("login", ip, input, db,
                       <<Step("rate_limit", Ok), Step("select", select)>>,
                       IntoResponse(LoginNoUser))
           ELSE IF ~VerifyPassword(input.password, rec.password_hash)
           THEN Answer("login", ip, input, db,
                       <<Step("rate_limit", Ok), Step("select", select),
                         Step("verify_password", LoginInvalidPassword)>>,
                       IntoResponse(LoginInvalidPassword))
           ELSE Answer("login", ip, input, db,
                       <<Step("rate_limit", Ok), Step("select", select),
                         Step("verify_password", Ok)>>,
                       [status |-> 200,
                        body |-> <<[access_token |-> GenerateTokens(rec.id, JwtIssuer, JwtSecret)]>>])
    /\ UNCHANGED <<cfg, now>>
    /\ UNCHANGED <<detail, consumed, out, events>>
    /\ UNCHANGED concVars
    /\ UNCHANGED streamVars
    /\ UNCHANGED dbVars

InitUsers ==
    /\ cfg = UserRateLimit
    /\ now = 0
    /\ rate_map = EmptyMap
    /\ log = [ip \in Ips |-> <<>>]
    /\ NoTasks
    /\ NoUsers
    /\ NoStream
    /\ NoRequest

NextUsers ==
    \/ \E input \in Credentials : \E db \in DbOutcomes : \E salt \in Salts :
          Signup(ScenarioIp, input, db, salt)
    \/ \E input \in Credentials : \E db \in DbOutcomes : Login(ScenarioIp, input, db)

SpecUsers == InitUsers /\ [][NextUsers]_vars

----------------------------------------------------------------------------
(* validate_chat on its own: requests around each of its limits *)

Repeat(x, k) == [i \in 1..k |-> x]

ModelNames ==
    {<<>>, Run(" ", 3)}
    \cup {Run(c, 1) : c \in Chars}
    \cup {Run("a", 3) \o Run(c, 1) \o Run("7", 1) : c \in Chars}
    \cup {Run("a", n) : n \in {MaxModelLen - 1, MaxModelLen, MaxModelLen + 1}}
    \cup {Run("U+00E9", n) : n \in {MaxModelLen \div 2, MaxModelLen \div 2 + 1}}
    \cup {Run("a", MaxModelLen) \o Run("/", 1), Run(" ", MaxModelLen + 1)}

Contents ==
    {<<>>, Run("a", 1), Run(" ", 1)}
    \cup {Run("a", n) : n \in {MaxContentLen - 1, MaxContentLen, MaxContentLen + 1}}
    \cup {Run("U+00E9", n) : n \in {MaxContentLen \div 2, MaxContentLen \div 2 + 1}}

MessageCounts == {1, 2, MaxMessages - 1, MaxMessages, MaxMessages + 1}

MessageLists ==
    {<<>>}
    \cup {Repeat(User(g), k - 1) \o <<User(c)>> :
            k \in MessageCounts, g \in {Run("a", 1), Run("a", MaxContentLen)}, c \in Contents}
    \cup {<<User(c)>> \o Repeat(User(Run("a", 1)), k - 1) : k \in MessageCounts, c \in Contents}

ValidationInputs == [model : ModelNames, messages : MessageLists]

\* one request, whatever its body
NextValidate ==
    \/ \E input \in ValidationInputs : served = 0 /\ Receive("chat", ScenarioIp, input)
    \/ Validate

SpecValidate == InitChat /\ [][NextValidate]_vars

----------------------------------------------------------------------------
(* What the chat stream is expected to hand out *)

\* the items handed out so far, as the consumer sees them, without the end mark
Items == [i \in 1..Len(SelectSeq(trace, LAMBDA r : r.kind # "end")) |-> Item(trace[i])]

Ended == spc = "end"

UpstreamFailed == \E i \in DOMAIN trace : Item(trace[i]) = UpstreamError

\* the lines of a body: the byte sequences before each newline
RECURSIVE Lines(_)
Lines(bytes) ==
    LET n == NewlinePos(bytes)
    IN  IF n = 0 THEN <<>>
        ELSE <<SubSeq(bytes, 1, n - 1)>> \o Lines(SubSeq(bytes, n + 1, Len(bytes)))

\* the body holds complete frames only: nothing follows its last newline
CompleteFrames(bytes) == bytes = <<>> \/ bytes[Len(bytes)] = NL

\* the generator fed the whole body as one increment: the inner loop runs
\* until no newline is left, an error returns, or a done chunk breaks out of
\* it; byte_stream.next() then gives None
RECURSIVE OneIncrement(_)
OneIncrement(buf) ==
    LET n == NewlinePos(buf)
        line == SubSeq(buf, 1, n - 1)
        rest == SubSeq(buf, n + 1, Len(buf))
    IN  IF n = 0 THEN <<>>
        ELSE IF IsBlank(line) THEN OneIncrement(rest)
        ELSE IF ItemOf(line).kind = "error" \/ ItemOf(line).done THEN <<ItemOf(line)>>
        ELSE <<ItemOf(line)>> \o OneIncrement(rest)

\* a well-formed response: newline-terminated JSON objects, the last one
\* alone with done = true
WellFormed(bytes) ==
    LET ls == Lines(bytes)
    IN  /\ CompleteFrames(bytes)
        /\ ls # <<>>
        /\ \A i \in DOMAIN ls : FromStr(ls[i]).valid
        /\ \A i \in DOMAIN ls : DoneOf(FromStr(ls[i])) <=> i = Len(ls)

\* each frame of the body decoded on its own, as if delivered whole
EachFrameWhole(bytes) == [i \in DOMAIN Lines(bytes) |-> ItemOf(Lines(bytes)[i])]

\* Scenario B: {"message":{"content":"Hi"},"done":false} and
\* {"message":{"content":""},"done":true}, each followed by a newline
ScenarioB == <<"{", "m", "f", "}", NL, "{", "e", "t", "}", NL>>

IsPrefix(a, b) == Len(a) <= Len(b) /\ \A i \in DOMAIN a : a[i] = b[i]

\* C7: when the stream has ended on a body of complete frames, without a
\* network failure, it has handed out exactly the items that the same body
\* gives when delivered as a single increment, in the same order, however
\* the body was cut into increments.
C7_SplitInvariant ==
    (Ended /\ CompleteFrames(upstream) /\ ~UpstreamFailed)
        => Items = OneIncrement(upstream)

\* C8: a chunk with done = true is the last item of the stream: nothing is
\* handed out after it but the end of the sequence, and byte_stream.next()
\* is not called again.
C8_DoneTerminates ==
    \A i \in DOMAIN trace :
        (trace[i].kind = "chunk" /\ trace[i].done)
            => /\ \/ i = Len(trace)
                  \/ i + 1 = Len(trace) /\ trace[i + 1].kind = "end" /\ trace[i + 1].reads = 0
               /\ i = Len(trace) => reads = 0

\* C9: on a well-formed body, whatever the increments, and as long as no
\* read fails: the items handed out are the leading frames of the body, each
\* decoded as if delivered whole; once the stream has ended they are all the
\* frames, the last one alone has done = true; and until it has ended the
\* stream can take a further step.  Scenario B gives "Hi"/false, ""/true.
C9_WellFormedStream ==
    (WellFormed(upstream) /\ ~UpstreamFailed) =>
        /\ IsPrefix(Items, EachFrameWhole(upstream))
        /\ Ended =>
              /\ Items = EachFrameWhole(upstream)
              /\ \A i \in DOMAIN Items : Items[i].kind = "chunk"
              /\ \A i \in DOMAIN Items : Items[i].done <=> i = Len(Items)
              /\ trace[Len(trace)].kind = "end"
        /\ (Ended /\ upstream = ScenarioB) =>
              Items = << [kind |-> "chunk", model |-> req.input.model, content |-> "Hi", done |-> FALSE],
                         [kind |-> "chunk", model |-> req.input.model, content |-> "", done |-> TRUE] >>
        /\ ~Ended => ENABLED NextStream

\* C9 witness: Scenario B has run to its end, and its second frame reached
\* the buffer in two or more increments.
C9_Witness ==
    /\ upstream = ScenarioB
    /\ Ended
    /\ Len(Items) = 2
    /\ trace[2].reads >= 2

\* C10: an error item for a line that is no JSON is the last item of the
\* stream: it is followed by nothing but the end of the sequence, no read
\* of the upstream is made after it, and the stream holds one error at most.
C10_MalformedTerminates ==
    \A i \in DOMAIN trace :
        (trace[i].kind = "error" /\ Item(trace[i]) # UpstreamError)
            => /\ \/ i = Len(trace)
                  \/ i + 1 = Len(trace) /\ trace[i + 1].kind = "end" /\ trace[i + 1].reads = 0
               /\ i = Len(trace) => reads = 0 /\ spc = "finished"
               /\ \A j \in DOMAIN trace : trace[j].kind = "error" => j = i

\* C10 witness: the stream has ended after the error of a malformed line,
\* with chunks before it, a further line left in the buffer and bytes of the
\* body not yet read.
C10_Witness ==
    /\ Ended
    /\ Len(trace) = 3
    /\ trace[1].kind = "chunk"
    /\ trace[2].kind = "error" /\ Item(trace[2]) # UpstreamError
    /\ NewlinePos(buffer) # 0
    /\ pos < Len(upstream)

\* C11: a failed read of the upstream body hands out an Upstream error item
\* that is the last item of the stream, and no chunk with done = true comes
\* before an Upstream error item.
C11_UpstreamTerminal ==
    \A i \in DOMAIN trace :
        Item(trace[i]) = UpstreamError
            => /\ \/ i = Len(trace)
                  \/ i + 1 = Len(trace) /\ trace[i + 1].kind = "end" /\ trace[i + 1].reads = 0
               /\ \A j \in 1..(i - 1) : ~(trace[j].kind = "chunk" /\ trace[j].done)

ProviderCalls == {i \in DOMAIN steps : steps[i].call \in {"chat_stream", "list_models"}}

\* C12: a provider call (opening a chat stream, listing the models) sends
\* one upstream request and no more; when that request fails to connect,
\* times out or is answered with a non-success status, the call returns an
\* Upstream error, and a failed chat_stream leaves no stream behind: the
\* handler answers at once and nothing is ever read or handed out.
C12_OpenFailsFast ==
    \A i \in ProviderCalls :
        /\ steps[i].requests = 1
        /\ steps[i].outcome = "ok" <=> steps[i].ok
        /\ ~steps[i].ok => steps[i].error = "Upstream"
        /\ (steps[i].call = "chat_stream" /\ ~steps[i].ok)
              => /\ i = Len(steps)
                 /\ rpc = "idle"
                 /\ spc = "none" /\ pos = 0 /\ reads = 0 /\ trace = <<>>
                 /\ out = <<>> /\ events = <<>>

\* C12 witness: a chat stream request was answered after its one upstream
\* request met a non-success status, an earlier request having gone through
\* the rate limiter.
C12_Witness ==
    /\ served = 2
    /\ req.handler = "chat_stream_sse"
    /\ Len(steps) = 2
    /\ steps[2].call = "chat_stream" /\ steps[2].outcome = "status_error"
    /\ response.status = 500
    /\ rate_map # EmptyMap

CallsOf(call) == {i \in DOMAIN steps : steps[i].call = call}

\* C13: in a chat request (aggregate or incremental), the provider is asked
\* to open a stream only after exactly one call of the rate limiter for the
\* client, which allowed it; and when the rate limiter denies, the request
\* is answered with RateLimited (429) and the provider is not called.
C13_AcquireBeforeOpen ==
    req.handler \in ChatHandlers =>
        /\ \A i \in CallsOf("chat_stream") :
              /\ Cardinality({j \in CallsOf("rate_limit") : j < i}) = 1
              /\ \A j \in CallsOf("rate_limit") : steps[j].ok
        /\ \A j \in CallsOf("rate_limit") :
              ~steps[j].ok => /\ CallsOf("chat_stream") = {}
                              /\ response.status = 429
        /\ Cardinality(CallsOf("rate_limit")) <= 1

\* C14: a chat request that validate_chat refuses (Scenario D: no messages)
\* is answered Unprocessable without a call of the rate limiter or of the
\* provider: the registry with every bucket's (available, last) is as it
\* was when the request arrived, and no stream was opened.
C14_InvalidRejectedFirst ==
    (req.handler \in ChatHandlers /\ ~ValidateChat(req.input).ok) =>
        /\ CallsOf("rate_limit") = {}
        /\ CallsOf("chat_stream") = {}
        /\ rate_map = req.before
        /\ spc = "none"
        /\ rpc = "idle" => response.status = 422

\* the request at both limits: 64 messages, each of 8000 bytes
AtTheLimits ==
    [model |-> Run("a", MaxModelLen),
     messages |-> Repeat(User(Run("a", MaxContentLen)), MaxMessages)]

\* the requests the claim says are refused
Refused(input) ==
    \/ \A i \in DOMAIN input.model : input.model[i].c = " "
    \/ StrLen(input.model) > 100
    \/ \E i \in DOMAIN input.model : input.model[i].c \notin {"a", "7", "U+00E9", "-", "_", ":", "."}
    \/ Len(input.messages) = 0
    \/ Len(input.messages) > 64
    \/ \E i \in DOMAIN input.messages :
          \/ StrLen(input.messages[i].content) = 0
          \/ StrLen(input.messages[i].content) > 8000

Taken == SubSeq(trace, 1, consumed)

ChunksOf(items) == SelectSeq(items, LAMBDA r : r.kind = "chunk")

HasError(items) == \E i \in DOMAIN items : items[i].kind = "error"

\* C16: a handler in aggregate mode answers only once the stream has come
\* to its end or to an error.  Without an error it has pulled the stream to
\* its end and answers 200 with every chunk of the stream, in the order
\* they were produced.  With an error item (malformed frame or upstream
\* failure) it answers with the internal error alone: no chunk produced
\* before the error is part of the response.
C16_Aggregate ==
    (req.handler \in Aggregating /\ spc # "none") =>
        /\ Len(out) = Len(ChunksOf(Taken))
        /\ \A i \in DOMAIN out : out[i] = ChatOut(ChunksOf(Taken)[i])
        /\ rpc = "streaming" => response = NoResponse /\ ~HasError(Taken)
        /\ (rpc = "idle" /\ ~HasError(trace))
              => /\ spc = "end" /\ consumed = Len(trace)
                 /\ response.status = 200
                 /\ Len(response.body) = Len(ChunksOf(trace))
                 /\ \A i \in DOMAIN response.body :
                       response.body[i] = ChatOut(ChunksOf(trace)[i])
        /\ (rpc = "idle" /\ HasError(trace))
              => /\ response = IntoResponse(Internal)
                 /\ response.status = 500
                 /\ Len(response.body) = 1
                 /\ response.body[1].code = "internal_error"

\* C16 witness: chat has answered 200 with the two chunks of Scenario B, in
\* the order of the upstream.
C16_Witness ==
    /\ req.handler = "chat"
    /\ rpc = "idle"
    /\ upstream = ScenarioB
    /\ response.status = 200
    /\ Len(response.body) = 2
    /\ response.body[1].content = "Hi" /\ ~response.body[1].done
    /\ response.body[2].content = "" /\ response.body[2].done

\* C17: in incremental mode the events sent are, one for one and in order,
\* the items the stream has handed out: a "chunk" event with the chunk's
\* content and done for Ok(chunk), an "error" event for Err, sent as data
\* while the response stays the 200 event stream; an "error" event is the
\* last event of its stream.
C17_Incremental ==
    (req.handler = "chat_stream_sse" /\ spc # "none") =>
        LET sent == SelectSeq(Taken, LAMBDA r : r.kind # "end")
        IN  /\ response.status = 200
            /\ Len(events) = Len(sent)
            /\ \A i \in DOMAIN events :
                  /\ events[i].event \in {"chunk", "error"}
                  /\ events[i].event = "chunk" <=> sent[i].kind = "chunk"
                  /\ events[i].event = "error" <=> sent[i].kind = "error"
                  /\ events[i].event = "chunk"
                        => /\ events[i].data.content = sent[i].content
                           /\ events[i].data.done = sent[i].done
                  /\ events[i].event = "error" => i = Len(events)
            /\ rpc = "idle" => consumed = Len(trace) /\ trace[Len(trace)].kind = "end"

\* C17 witness: the event stream has ended after a "chunk" event and an
\* "error" event, bytes of the upstream being left unread.
C17_Witness ==
    /\ req.handler = "chat_stream_sse"
    /\ rpc = "idle"
    /\ Len(events) = 2
    /\ events[1].event = "chunk"
    /\ events[2].event = "error"
    /\ response.status = 200
    /\ pos < Len(upstream)

\* what the caller would have been sent, had the upstream's error text been d
\* in a run otherwise the same
EventsWith(d) ==
    [i \in DOMAIN events |-> SseEventOf(Taken[i], d)]

ResponseWith(d) ==
    IF req.handler = "health" /\ CallsOf("list_models") # {}
    THEN HealthResponse(SelectOne(steps[1].outcome), ProviderListModels(steps[2].outcome, d))
    ELSE response

\* C18: nothing sent to the caller depends on the upstream's error detail:
\* the response (status and body) and every event are what they would be in
\* the run that differs in the upstream's error text only.
C18_NoUpstreamDetail ==
    \A d \in Details :
        /\ response = ResponseWith(d)
        /\ events = EventsWith(d)

\* the frames of the body that are not blank, in upstream order
BlankLine(line) == \A i \in DOMAIN line : line[i] = " "

NonBlankFrames == SelectSeq(Lines(upstream), LAMBDA l : ~BlankLine(l))

\* what the stream has handed out for frames: chunks and decoding errors
FrameItems == SelectSeq(Items, LAMBDA x : x # UpstreamError)

\* C19: the chunks handed to the consumer are the decodings of the leading
\* non-blank frames of the upstream, one for one and in upstream order:
\* none is reordered, repeated or left out, and a blank frame gives neither
\* a chunk nor an error.  A stream that ends without an error and without a
\* done chunk has handed out every frame.
C19_UpstreamOrder ==
    LET frames == NonBlankFrames
        items == FrameItems
    IN  /\ Len(items) <= Len(frames)
        /\ \A i \in DOMAIN items : items[i] = ItemOf(frames[i])
        /\ \A i \in DOMAIN items : items[i].kind = "error" => i = Len(items)
        /\ (Ended /\ \A i \in DOMAIN Items : Items[i].kind = "chunk" /\ ~Items[i].done)
              => Len(items) = Len(frames)

\* C19 witness: the stream has ended on a body of three frames, the middle
\* one blank, with the two chunks handed out in upstream order.
C19_Witness ==
    /\ upstream = <<"{", "e", "t", "}", NL, SP, NL, "{", "m", "f", "}", NL>>
    /\ Ended
    /\ Len(trace) = 3
    /\ trace[1].content = "" /\ trace[1].done
    /\ trace[2].content = "Hi" /\ ~trace[2].done

\* C20: the stream is driven by its consumer.  A network increment is read
\* and an item is handed out only while a pull of the consumer is pending
\* and everything handed out before has been taken; handing out an item
\* ends the pull; so at most one item is ever waiting to be taken.
C20_PullDriven ==
    [][ /\ pos' > pos => demand /\ consumed = Len(trace)
        /\ reads' > reads => demand /\ consumed = Len(trace)
        /\ Len(trace') > Len(trace) => demand /\ ~demand' /\ consumed = Len(trace)
        /\ Len(trace') - consumed' <= 1 ]_vars

\* C20 witness: after a first item was taken the consumer is pulling again,
\* and two or more increments have been read since.
C20_Witness ==
    /\ req.handler \in ChatHandlers
    /\ demand
    /\ Len(trace) = 1
    /\ consumed = 1
    /\ reads = 2

C22_Finite ==
    /\ <>(spc = "end" /\ trace # <<>> /\ trace[Len(trace)].kind = "end")
    /\ [][(trace # <<>> /\ trace[Len(trace)].kind = "end") => trace' = trace]_vars

\* C22 witness: the end was handed out after two chunks and a failure of
\* the upstream, the first frame having come in two or more increments.
C22_Witness ==
    /\ spc = "end"
    /\ Len(trace) = 4
    /\ trace[1].kind = "chunk" /\ trace[2].kind = "chunk"
    /\ trace[1].reads = 2
    /\ Item(trace[3]) = UpstreamError
    /\ trace[4].kind = "end"

\* the member of a frame that stands for a name: the last one of those
\* that carry it, "" when there is none
RECURSIVE LastOf(_, _)
LastOf(members, names) ==
    IF members = <<>> THEN ""
    ELSE IF members[Len(members)] \in names THEN members[Len(members)]
    ELSE LastOf(SubSeq(members, 1, Len(members) - 1), names)

\* C23: a frame that parses gives exactly one chunk.  Its model is the
\* model the request named, whatever the payload says; its content is the
\* frame's message.content, "" when that is absent or no string; its done
\* is the frame's done, false when that is absent or no boolean.  A frame
\* that does not parse gives no chunk, and so does a frame the upstream
\* fails before delivering.
C23_ChunkOfFrame ==
    LET frame == FromStr(Lines(upstream)[1])
        chunks == ChunksOf(trace)
    IN  /\ Len(chunks) <= 1
        /\ ~frame.valid => chunks = <<>>
        /\ (frame.valid /\ Ended /\ ~UpstreamFailed) => Len(chunks) = 1
        /\ \A i \in DOMAIN chunks :
              /\ chunks[i].model = req.input.model
              /\ chunks[i].content =
                    IF LastOf(frame.members, {"m", "e", "n"}) = "m" THEN "Hi" ELSE ""
              /\ chunks[i].done = (LastOf(frame.members, {"t", "f", "s"}) = "t")

\* C23 witness: the stream has ended after one chunk for a frame that names
\* another model, whose content is no string and whose done is no boolean.
C23_Witness ==
    /\ Ended
    /\ FromStr(Lines(upstream)[1]).members = <<"o", "n">>
    /\ req.input.model # OtherModel
    /\ Len(ChunksOf(trace)) = 1
    /\ trace[1].model = req.input.model
    /\ trace[1].content = "" /\ ~trace[1].done

\* the request carries "Bearer <token>" with a token that verifies
Authorized(header) ==
    /\ header # NoHeader
    /\ header.scheme = "Bearer"
    /\ VerifyJwt(header.token, JwtSecret, JwtIssuer)

\* C27: once require_auth has answered a request for a protected route,
\* the handler runs if and only if the request carries a Bearer token that
\* verifies; every other request is answered Unauthorized, and nothing but
\* require_auth has been called for it.
C27_AuthGate ==
    (req.handler \in {"chat", "chat_stream_sse"} /\ steps # <<>>) =>
        /\ steps[1].call = "require_auth"
        /\ steps[1].ok <=> Authorized(req.authorization)
        /\ ~Authorized(req.authorization)
              => /\ Len(steps) = 1
                 /\ rpc = "idle"
                 /\ response = IntoResponse(Unauthorized)

\* a signup or a login has been answered
Answered(h) == req.handler = h /\ rpc = "idle"

\* the rate limiter was asked and let the call through
Admitted == \E i \in DOMAIN steps : steps[i].call = "rate_limit" /\ steps[i].ok

\* the request names an email and a password that pass validation
ValidSignup == ValidateEmail(req.input.email).ok /\ ValidatePassword(req.input.password).ok

\* the users with the request's email when the request arrived
Registered == {r \in req.users_before : r.email = req.input.email}

\* no two users share an email
OnePerEmail == \A r1, r2 \in users : r1.email = r2.email => r1 = r2

Matching ==
    {r \in Registered : r.password_hash = HashPassword(req.input.password, r.password_hash.salt)}

\* the response carries an access token
TokenIssued == \E i \in DOMAIN response.body : "access_token" \in DOMAIN response.body[i]

\* C29 as stated: a login the rate limiter lets through returns an access
\* token if and only if a user with the email exists and the password
\* matches its stored password; in every other case it is answered 401
\* with no token.
C29_Original ==
    (Answered("login") /\ Admitted) =>
        /\ (response.status = 200 /\ TokenIssued) <=> Matching # {}
        /\ Matching = {} => response = IntoResponse(Unauthorized) /\ ~TokenIssued

\* C29: a login the rate limiter lets through and whose query the database
\* answers returns an access token, for the user's id, if and only if a
\* user with the email exists and the password matches its stored password,
\* and is answered 401 in every other case; a login whose query fails is
\* answered 500.  No response but 200 carries a token, and login changes
\* no user.
C29_Login ==
    Answered("login") =>
        /\ users = req.users_before
        /\ TokenIssued <=> response.status = 200
        /\ (Admitted /\ req.db = "ok") =>
              /\ response.status = 200 <=> Matching # {}
              /\ Matching # {}
                    => \E r \in Matching :
                          response.body =
                             <<[access_token |-> GenerateTokens(r.id, JwtIssuer, JwtSecret)]>>
              /\ Matching = {} => response = IntoResponse(Unauthorized)
        /\ (Admitted /\ req.db # "ok") => response = IntoResponse(Internal)
        /\ ~Admitted => response = IntoResponse(RateLimited)

\* C29 witness: a login with the wrong password for a user that exists was
\* answered 401.
C29_Witness ==
    /\ Answered("login")
    /\ Admitted
    /\ Registered # {}
    /\ Matching = {}
    /\ response.status = 401

\* C30: health runs both of its checks and answers 200 "healthy" exactly
\* when the database answered and list_models succeeded, and 503
\* "unhealthy" when either failed; readiness answers 200 without asking any
\* dependency.
C30_Health ==
    /\ Answered("health") =>
          /\ Len(steps) = 2
          /\ steps[1].call = "select" /\ steps[2].call = "list_models"
          /\ LET both == steps[1].outcome = "ok" /\ steps[2].outcome = "ok"
             IN  /\ both => response.status = 200 /\ response.body[1].status = "healthy"
                 /\ ~both => response.status = 503 /\ response.body[1].status = "unhealthy"
                 /\ response.body[1].database.healthy <=> steps[1].outcome = "ok"
                 /\ response.body[1].ollama.healthy <=> steps[2].outcome = "ok"
    /\ Answered("readiness") =>
          /\ steps = <<>>
          /\ response = [status |-> 200, body |-> <<"ready">>]

\* C30 witness: health, the second request served, was answered 503 with
\* the database down and the provider up.
C30_Witness ==
    /\ Answered("health")
    /\ served = 2
    /\ steps[1].outcome = "error" /\ steps[2].outcome = "ok"
    /\ response.status = 503

\* the refill of the specification, elapsed being in milliseconds
FloorRefill(rate_per_min, elapsed) == (rate_per_min * elapsed) \div MsPerMinute

\* the bucket b after the refill step of an acquire at time t, as specified
Refilled(b, t) ==
    LET refill == FloorRefill(b.rate_per_min, t - b.last)
    IN  IF refill > 0
        THEN [b EXCEPT !.available = Min(b.available + refill, b.burst), !.last = t]
        ELSE b

\* C31: an acquire at time now on a bucket credits
\* refill = floor(elapsed * refill_rate / 60), elapsed counted from
\* last_refill: with refill > 0 available becomes
\* min(available + refill, capacity) and last_refill becomes now; with
\* refill = 0 both stay as they were; the check and the decrement then act
\* on that bucket.
C31_LazyRefill ==
    [][ \A ip \in Ips :
          (Len(log'[ip]) > Len(log[ip]) /\ IpKey(ip) \in DOMAIN rate_map)
             => LET b == Refilled(rate_map[IpKey(ip)], now)
                    call == log'[ip][Len(log'[ip])]
                IN  /\ call.ok <=> b.available > 0
                    /\ rate_map'[IpKey(ip)].last = b.last
                    /\ rate_map'[IpKey(ip)].available
                          = IF b.available > 0 THEN b.available - 1 ELSE 0 ]_vars

\* the state of the stream's lifecycle: Streaming until a terminal condition
\* is reached; Errored once an error item was handed out; Completed once a
\* chunk with done = true was handed out or the sequence has ended.  (Idle
\* and Opening lie before the stream exists.)
Lifecycle ==
    IF spc = "none" THEN "Idle"
    ELSE IF \E i \in DOMAIN trace : trace[i].kind = "error" THEN "Errored"
    ELSE IF spc = "end" \/ \E i \in DOMAIN trace : trace[i].kind = "chunk" /\ trace[i].done
    THEN "Completed"
    ELSE "Streaming"

\* at most one error item, and nothing handed out after it
ErrorIsLast ==
    \A i \in DOMAIN Items : Items[i].kind = "error" => i = Len(Items)

\* C32: a stream leaves Streaming only for Completed or Errored, and stays
\* in either for good with no further chunk or error handed out; so a
\* stream holds at most one error item, and it is its last item.
C32_Lifecycle ==
    /\ [][ /\ Lifecycle = "Streaming" => Lifecycle' \in {"Streaming", "Completed", "Errored"}
           /\ Lifecycle \in {"Completed", "Errored"}
                 => Lifecycle' = Lifecycle /\ Items' = Items ]_vars
    /\ []ErrorIsLast

\* C33: a signup whose email or password fails validation (a password
\* shorter than eight characters does) is answered 422 "unprocessable"
\* without the rate limiter or the database being called: the users and
\* every bucket are as the request found them.
C33_InvalidSignup ==
    Answered("signup") =>
        /\ Len(req.input.password) < MinPasswordLen => ~ValidSignup
        /\ ~ValidSignup =>
              /\ response.status = 422
              /\ response.body[1].code = "unprocessable"
              /\ \A i \in DOMAIN steps : steps[i].call \in {"validate_email", "validate_password"}
              /\ users = req.users_before
              /\ rate_map = req.before

\* C33 witness: the client's bucket is empty and a user exists; a signup
\* with a valid email and the password "weak" was answered 422, not 429.
C33_Witness ==
    /\ Answered("signup")
    /\ ValidateEmail(req.input.email).ok
    /\ req.input.password = <<"w", "e", "a", "k">>
    /\ response.status = 422
    /\ users # {}
    /\ IpKey(req.ip) \in DOMAIN rate_map
    /\ rate_map[IpKey(req.ip)].available = 0

\* the bucket of a client as its latest allowed call left it
AfterLastAllowed(l, b) ==
    LET j == CHOOSE i \in DOMAIN l : l[i].ok /\ \A k \in DOMAIN l : k > i => ~l[k].ok
    IN  [b EXCEPT !.available = l[j].available, !.last = l[j].last]

\* C34: a denied call leaves its bucket as it found it, with no token and
\* the time of the last refill where it was; so what a call is answered,
\* and the bucket it leaves, are what they would be had none of the denied
\* calls since the latest allowed one been made.
C34_DeniedLeavesBucket ==
    [][ \A ip \in Ips :
          (cfg.enabled /\ Len(log'[ip]) > Len(log[ip]) /\ IpKey(ip) \in DOMAIN rate_map)
             => LET b == rate_map[IpKey(ip)]
                    call == log'[ip][Len(log'[ip])]
                    r == Allow(AfterLastAllowed(log[ip], b), now)
                IN  /\ ~call.ok => rate_map'[IpKey(ip)] = b /\ b.available = 0
                    /\ call.ok = r.ok
                    /\ rate_map'[IpKey(ip)] = r.bucket ]_vars

\* C34 witness: at one request per minute a client was allowed at time 0,
\* denied twice in the minute that followed, and allowed again at one
\* minute.
C34_Witness ==
    /\ cfg.enabled /\ cfg.requests_per_minute = 1 /\ cfg.burst = 1
    /\ Len(log[ScenarioIp]) = 4
    /\ log[ScenarioIp][1].ok /\ log[ScenarioIp][1].t = 0
    /\ ~log[ScenarioIp][2].ok /\ log[ScenarioIp][2].t > 0
    /\ ~log[ScenarioIp][3].ok /\ log[ScenarioIp][3].t > log[ScenarioIp][2].t
    /\ log[ScenarioIp][4].ok /\ log[ScenarioIp][4].t = MsPerMinute

\* the places of the newlines of the body
Newlines(bytes) == {i \in DOMAIN bytes : bytes[i] = NL}

\* the bytes of the body after its last newline
Trailing(bytes) ==
    IF Newlines(bytes) = {} THEN bytes
    ELSE SubSeq(bytes, (CHOOSE i \in Newlines(bytes) : \A j \in Newlines(bytes) : j <= i) + 1,
                Len(bytes))

IsSuffix(a, b) ==
    Len(a) <= Len(b) /\ SubSeq(b, Len(b) - Len(a) + 1, Len(b)) = a

\* C37: the bytes after the last newline of the body are never decoded: the
\* stream hands out no more chunks and decoding errors than the body has
\* newline-terminated lines that are not blank, and once the whole body was received
\* the trailing bytes stay in the buffer to the end; a body that ends there
\* ends the sequence with no item for them.
C37_TrailingDropped ==
    LET tail == Trailing(upstream)
    IN  /\ Len(FrameItems) <= Cardinality(Newlines(upstream))
        /\ Len(FrameItems) <= Len(NonBlankFrames)
        /\ pos = Len(upstream) => IsSuffix(tail, buffer)
        /\ (Ended /\ Items = <<>>) => trace = <<Record(EndOfStream, trace[1].reads)>>
        /\ (Ended /\ Items # <<>> /\ Items[Len(Items)].kind = "chunk")
              => /\ Len(trace) = Len(Items) + 1
                 /\ trace[Len(trace)].kind = "end"

\* C37 witness: the body was a chunk line followed by a complete object with
\* done = true and no newline; the stream has ended with the one chunk and
\* the object still in the buffer.
C37_Witness ==
    /\ upstream = <<"{", "m", "f", "}", NL, "{", "e", "t", "}">>
    /\ Ended
    /\ Len(Items) = 1
    /\ Items[1].kind = "chunk" /\ ~Items[1].done
    /\ buffer = <<"{", "e", "t", "}">>
    /\ Len(trace) = 2

\* the body holds JSON objects and blank lines only, and no object has a
\* member done = true
NoDoneFrame ==
    \A i \in DOMAIN NonBlankFrames :
        LET v == FromStr(NonBlankFrames[i])
        IN  v.valid /\ \A j \in DOMAIN v.members : v.members[j] # "t"

\* C38: when the body holds no frame with done = true and no read of it
\* fails, the stream hands out no error item; chat and api_chat, once the
\* stream has ended, answer 200 with one chunk per frame, in order, none of
\* them with done = true.
C38_EndWithoutDone ==
    (req.handler \in Aggregating /\ spc # "none" /\ NoDoneFrame /\ ~UpstreamFailed) =>
        /\ \A i \in DOMAIN trace : trace[i].kind # "error"
        /\ rpc = "idle" =>
              /\ spc = "end"
              /\ response.status = 200
              /\ Len(response.body) = Len(NonBlankFrames)
              /\ \A i \in DOMAIN response.body :
                    /\ ~response.body[i].done
                    /\ response.body[i].content = ContentOf(FromStr(NonBlankFrames[i]))

\* C38 witness: chat has answered 200 with the two chunks of a body of two
\* frames, neither with done = true.
C38_Witness ==
    /\ req.handler = "chat"
    /\ rpc = "idle"
    /\ upstream = <<"{", "m", "f", "}", NL, "{", "m", "f", "}", NL>>
    /\ response.status = 200
    /\ Len(response.body) = 2
    /\ ~response.body[1].done /\ ~response.body[2].done

\* the bucket of the request's client as the request found it
BucketBefore ==
    IF IpKey(req.ip) \in DOMAIN req.before
    THEN req.before[IpKey(req.ip)]
    ELSE TokenBucketNew(cfg.requests_per_minute, cfg.burst, now)

\* C39: the token an admitted request took stays taken.  Nothing but a call
\* of rate_limit writes the registry; and when the provider call after the
\* acquire fails (list_models, the opening of the chat stream, or a later
\* item of it) and the request is answered 500, the client's bucket holds
\* one token less than the refill of the acquire left in it.
C39_TokenNotReturned ==
    /\ [][rpc # "rate_limit" => rate_map' = rate_map]_vars
    /\ [](( /\ req.handler \in {"list_models", "api_chat"}
            /\ rpc = "idle"
            /\ Admitted
            /\ response.status = 500 )
          => /\ IpKey(req.ip) \in DOMAIN rate_map
             /\ rate_map[IpKey(req.ip)].available
                   = Refill(BucketBefore, log[req.ip][Len(log[req.ip])].t).available - 1)

\* C39 witness: api_chat was admitted with the client's only token, the
\* stream failed after a first chunk, the request was answered 500, and the
\* bucket is empty.
C39_Witness ==
    /\ req.handler = "api_chat"
    /\ rpc = "idle"
    /\ Admitted
    /\ response.status = 500
    /\ Len(trace) >= 2
    /\ trace[1].kind = "chunk" /\ trace[2].kind = "error"
    /\ rate_map[IpKey(req.ip)].available = 0

\* no user of the table has the email of the attempt
EmailUnknown(input) == SelectUser(users, input.email) = {}

\* a user of the table has the email of the attempt, and the password of
\* the attempt is not that user's
PasswordWrong(input) ==
    /\ SelectUser(users, input.email) # {}
    /\ \A r \in SelectUser(users, input.email) :
          r.password_hash # HashPassword(input.password, r.password_hash.salt)

\* what a login may answer from the current state
LoginResponses ==
    {IntoResponse(e) : e \in {RateLimited, Internal, Unauthorized}}
        \cup {[status |-> 200,
               body |-> <<[access_token |-> GenerateTokens(r.id, JwtIssuer, JwtSecret)]>>] :
                 r \in users}

\* the rate limiter's map after one more acquire of the key, and the map
\* left as it is
LoginRateMaps ==
    LET key == IpKey(ScenarioIp)
        map == OrInsertWith(rate_map, key,
                            TokenBucketNew(cfg.requests_per_minute, cfg.burst, now))
    IN  {rate_map, [map EXCEPT ![key] = Allow(map[key], now).bucket]}

\* the login of input answers r and leaves the rate limiter's map m
LoginGives(input, db, r, m) ==
    ENABLED (Login(ScenarioIp, input, db) /\ response' = r /\ rate_map' = m)

\* C40: from every state, and for either outcome of the database, a login
\* with an email no user has and a login with a registered email and a
\* wrong password are answered with the same response and leave the rate
\* limiter's map the same; when the rate limiter admits them and the query
\* succeeds the response is the 401 of Unauthorized.
C40_LoginHidesRegistration ==
    (rpc = "idle" /\ served < MaxUserRequests) =>
        \A unknown \in {i \in Credentials : EmailUnknown(i)} :
        \A wrong \in {i \in Credentials : PasswordWrong(i)} :
        \A db \in DbOutcomes :
            /\ \E r \in LoginResponses : \E m \in LoginRateMaps :
                  LoginGives(unknown, db, r, m)
            /\ \A r \in LoginResponses : \A m \in LoginRateMaps :
                  LoginGives(unknown, db, r, m) <=> LoginGives(wrong, db, r, m)
            /\ \A m \in LoginRateMaps :
                  ( db = "ok" /\ LoginGives(unknown, db, IntoResponse(Unauthorized), m) )
                      => /\ m # rate_map
                         /\ LoginGives(wrong, db, IntoResponse(Unauthorized), m)

\* C40 witness: a state with a registered user from which the rate limiter
\* admits one more login, where a login with an email no user has and a
\* login with the registered email and a wrong password are both answered
\* 401 and both leave the same map, with one token less.
C40_Witness ==
    /\ rpc = "idle"
    /\ users # {}
    /\ \E unknown \in Credentials : \E wrong \in Credentials : \E m \in LoginRateMaps :
          /\ EmailUnknown(unknown)
          /\ PasswordWrong(wrong)
          /\ m # rate_map
          /\ LoginGives(unknown, "ok", IntoResponse(Unauthorized), m)
          /\ LoginGives(wrong, "ok", IntoResponse(Unauthorized), m)

\* the keys of the clients that have called rate_limit so far
KeysSeen(l) == {IpKey(ip) : ip \in {i \in Ips : l[i] # <<>>}}

\* C25: with rate limiting enabled, the first call of a key creates its
\* bucket with available = burst, so that call is allowed and leaves
\* burst - 1; no later call creates one; and no key ever leaves the
\* registry, whose key set is at any time the set of the keys that have
\* called.
C25_CreateOnFirstUse ==
    [][ /\ DOMAIN rate_map \subseteq DOMAIN rate_map'
        /\ cfg.enabled => DOMAIN rate_map' = KeysSeen(log')
        /\ \A ip \in Ips :
              (cfg.enabled /\ Len(log'[ip]) > Len(log[ip]))
                 => LET call == log'[ip][Len(log'[ip])]
                    IN  IF log[ip] = <<>>
                        THEN /\ IpKey(ip) \notin DOMAIN rate_map
                             /\ call.created /\ call.ok
                             /\ call.available = cfg.burst - 1
                             /\ rate_map'[IpKey(ip)].available = cfg.burst - 1
                        ELSE /\ IpKey(ip) \in DOMAIN rate_map
                             /\ ~call.created ]_vars

\* C25 witness: both clients have their buckets, each created by its first
\* call, which left one token of two; the first client has called again.
C25_Witness ==
    /\ cfg.enabled /\ cfg.burst = 2
    /\ DOMAIN rate_map = {IpKey(ip) : ip \in Ips}
    /\ \A ip \in Ips : log[ip] # <<>> /\ log[ip][1].created /\ log[ip][1].available = 1
    /\ Len(log[ScenarioIp]) >= 3
    /\ ~log[ScenarioIp][3].ok

\* C26: the time of a bucket's last refill never goes back, and it is never
\* later than the time of the latest call on the bucket.
C26_LastRefillMonotone ==
    [][ /\ \A k \in DOMAIN rate_map : rate_map'[k].last >= rate_map[k].last
        /\ \A ip \in Ips :
              IpKey(ip) \in DOMAIN rate_map'
                 => /\ log'[ip] # <<>>
                    /\ rate_map'[IpKey(ip)].last <= log'[ip][Len(log'[ip])].t ]_vars

\* C26 witness: a bucket whose last refill was credited at one minute is
\* called again twenty seconds later; nothing is credited and the time of
\* the last refill stays behind the call.
C26_Witness ==
    /\ IpKey(ScenarioIp) \in DOMAIN rate_map
    /\ rate_map[IpKey(ScenarioIp)].last = MsPerMinute
    /\ Len(log[ScenarioIp]) >= 3
    /\ log[ScenarioIp][Len(log[ScenarioIp])].t = MsPerMinute + StepMs

\* the tasks inside the section of allow that the bucket's Mutex guards
InAllow(k) == {p \in Tasks : loc[p].key = k /\ pc[p] \in {"refill", "take", "unlock"}}

\* C35: however the first calls of a client overlap, one of them creates
\* the client's bucket and the others find it: the registry holds one
\* bucket for the key, the first call to decide is the only one that
\* created it, and while nothing is refilled the i-th call to decide leaves
\* burst - i tokens, or none, so that min(N, burst) of N calls are allowed.
C35_OneBucketForAll ==
    cfg.enabled =>
        \A ip \in Ips :
            LET calls == log[ip]
                unrefilled == \A i \in DOMAIN calls : calls[i].last = calls[1].born
            IN  /\ \A i \in DOMAIN calls : calls[i].created <=> i = 1
                /\ calls # <<>> => IpKey(ip) \in DOMAIN rate_map
                /\ unrefilled =>
                      /\ \A i \in DOMAIN calls :
                            /\ calls[i].available = IF i <= cfg.burst THEN cfg.burst - i ELSE 0
                            /\ calls[i].ok <=> i <= cfg.burst
                      /\ (calls # <<>> /\ InAllow(IpKey(ip)) = {}) =>
                            rate_map[IpKey(ip)].available
                               = IF Len(calls) <= cfg.burst THEN cfg.burst - Len(calls) ELSE 0

\* C35 witness: three requests of a client that had no bucket were in
\* flight together at one instant; the first to decide created the bucket
\* with two tokens, the second found it, and the third was denied.
C35_Witness ==
    /\ cfg.enabled /\ cfg.burst = 2
    /\ Len(log[ScenarioIp]) = 3
    /\ log[ScenarioIp][1].created /\ log[ScenarioIp][1].contended = 2
    /\ ~log[ScenarioIp][2].created /\ log[ScenarioIp][2].ok
    /\ ~log[ScenarioIp][3].created /\ ~log[ScenarioIp][3].ok
    /\ \A i \in 1..3 : log[ScenarioIp][i].t = log[ScenarioIp][1].born

\* C36: every call of rate_limit returns: a task that has entered it is
\* eventually out of it again, whatever other calls are made on the same
\* key or on other keys.
C36_EveryCallReturns ==
    \A p \in Tasks : pc[p] # "idle" ~> pc[p] = "idle"

\* the tasks whose acquire is in progress on key k: past the registry
\* lookup and not yet returned
InProgress(k) == {q \in Tasks : loc[q].key = k /\ pc[q] \notin {"idle", "entry"}}

\* task p has entered acquire and cannot go on
Blocked(p) ==
    \/ pc[p] = "entry" /\ shard_lock[shard_of[loc[p].key]] # 0
    \/ pc[p] = "lock" /\ mutex[loc[p].key] # 0

\* C24: the entries of the registry are locked independently: an acquire
\* that has to wait, waits for an acquire in progress on its own key, never
\* for one on another key only.
C24_IndependentKeys ==
    \A p \in Tasks : Blocked(p) => InProgress(loc[p].key) # {}

----------------------------------------------------------------------------
(* Claims about the token bucket *)

\* the times of the calls on which client ip observed an allow, within [s, s + w]
AllowedIn(ip, s, w) ==
    {i \in DOMAIN log[ip] : log[ip][i].ok /\ s <= log[ip][i].t /\ log[ip][i].t <= s + w}

\* C1: every bucket of the registry has 0 <= available <= burst in every
\* reachable state, and also right after the refill step of a call made at
\* the current time or any later time, before the token is taken.
C1_AvailableWithinCapacity ==
    \A k \in DOMAIN rate_map :
        /\ 0 <= rate_map[k].available
        /\ rate_map[k].available <= rate_map[k].burst
        /\ rate_map[k].burst = cfg.burst
        /\ \A d \in 0..(MaxTimeMs \div StepMs) :
              LET b == Refill(rate_map[k], now + d * StepMs)
              IN  0 <= b.available /\ b.available <= b.burst

\* C1 witness: a call whose refill had to be capped: the tokens left by the
\* previous call plus the refill exceeded burst.
C1_Witness ==
    \E ip \in Ips : \E i \in DOMAIN log[ip] :
        /\ i > 1
        /\ cfg.enabled
        /\ log[ip][i].last > log[ip][i - 1].last
        /\ log[ip][i - 1].available
             + RefillAmount(cfg.requests_per_minute, log[ip][i].t - log[ip][i - 1].last)
               > cfg.burst
        /\ log[ip][i].available = cfg.burst - 1

\* C3: with rate limiting enabled, for every client and every closed window
\* of 60 seconds, the number of allowed calls made within the window is at
\* most burst + requests_per_minute.
C3_WindowBound ==
    cfg.enabled =>
        \A ip \in Ips : \A i \in DOMAIN log[ip] :
            Cardinality(AllowedIn(ip, log[ip][i].t, MsPerMinute))
                <= cfg.burst + cfg.requests_per_minute

\* C3 witness: a window in which the bound is met exactly, with at least one
\* of the allowed calls paid for by a refill.
C3_Witness ==
    /\ cfg.enabled
    /\ \E ip \in Ips : \E i \in DOMAIN log[ip] :
          /\ Cardinality(AllowedIn(ip, log[ip][i].t, MsPerMinute))
                = cfg.burst + cfg.requests_per_minute
          /\ \E j \in DOMAIN log[ip] : j > i /\ log[ip][j].ok /\ log[ip][j].last > log[ip][i].t


\* the calls L[i..] give the results of Allow applied one call after the other from bucket b
RECURSIVE SerialFrom(_, _, _)
SerialFrom(b, L, i) ==
    IF i > Len(L) THEN TRUE
    ELSE LET r == Allow(b, L[i].t)
         IN  /\ r.ok = L[i].ok
             /\ r.bucket.available = L[i].available
             /\ r.bucket.last = L[i].last
             /\ SerialFrom(r.bucket, L, i + 1)

\* the calls of a client, in the order they took the bucket's lock, are a serial run
Serializable ==
    \A ip \in Ips :
        log[ip] # <<>> =>
            /\ log[ip][1].created
            /\ SerialFrom(TokenBucketNew(cfg.requests_per_minute, cfg.burst, log[ip][1].born),
                          log[ip], 1)

\* while no call refilled the bucket, min(N, burst) of a client's N calls were allowed
ExactlyMinAllowed ==
    \A ip \in Ips :
        (\A i \in DOMAIN log[ip] : log[ip][i].last = log[ip][1].born)
            => Cardinality({i \in DOMAIN log[ip] : log[ip][i].ok})
                 = Min(Len(log[ip]), cfg.burst)

\* C2 (as amended): at most one task at a time is inside the guarded section
\* of allow for a key; the results of a client's calls are those of running
\* allow serially in the order the calls took the lock; without a refill
\* exactly min(N, burst) of N calls are allowed; and no two calls that
\* credit a refill (refill > 0) computed it from the same last_refill value.
C2_AtomicAcquire ==
    cfg.enabled =>
        /\ \A k \in Keys : Cardinality(InAllow(k)) <= 1
        /\ Serializable
        /\ ExactlyMinAllowed
        /\ \A ip \in Ips : \A i \in DOMAIN log[ip] : \A j \in DOMAIN log[ip] :
              ( /\ i < j
                /\ RefillAmount(cfg.requests_per_minute, log[ip][i].t - log[ip][i].last_seen) > 0
                /\ RefillAmount(cfg.requests_per_minute, log[ip][j].t - log[ip][j].last_seen) > 0 )
              => log[ip][i].last_seen # log[ip][j].last_seen

\* C2 as stated: the same, but with no two calls at all computing a refill
\* (elapsed > 0) from the same last_refill value.
C2_Original ==
    cfg.enabled =>
        /\ \A k \in Keys : Cardinality(InAllow(k)) <= 1
        /\ Serializable
        /\ ExactlyMinAllowed
        /\ \A ip \in Ips : \A i \in DOMAIN log[ip] : \A j \in DOMAIN log[ip] :
              ( /\ i < j
                /\ log[ip][i].t > log[ip][i].last_seen
                /\ log[ip][j].t > log[ip][j].last_seen )
              => log[ip][i].last_seen # log[ip][j].last_seen

\* C2 witness: three calls of one client in flight at once (two of them
\* waiting when the first decided, one when the second decided), no refill,
\* exactly burst of them allowed and the rest denied.
C2_Witness ==
    /\ cfg.enabled
    /\ \E ip \in Ips :
          /\ Len(log[ip]) = 3
          /\ log[ip][1].contended = 2
          /\ log[ip][2].contended = 1
          /\ \A i \in DOMAIN log[ip] : log[ip][i].last = log[ip][1].born
          /\ \E i \in DOMAIN log[ip] : ~log[ip][i].ok
          /\ Cardinality({i \in DOMAIN log[ip] : log[ip][i].ok}) = cfg.burst

\* the calls of Scenario A, in order
ScenarioLog == log[ScenarioIp]

OneSecondMs == MsPerMinute \div 60

\* C4: from a fresh bucket with 60 requests per minute and burst 20, the
\* first 20 calls made at time 0 are allowed and every later call at time 0
\* is denied; a call made between 1 and 2 seconds later, directly after at
\* least 20 calls at time 0, is allowed, and a further call at that same
\* time is denied.
C4_ScenarioA ==
    \A i \in DOMAIN ScenarioLog :
        /\ (ScenarioLog[i].t = 0 /\ i <= DefaultBurst) => ScenarioLog[i].ok
        /\ (ScenarioLog[i].t = 0 /\ i > DefaultBurst) => ~ScenarioLog[i].ok
        /\ ( /\ i > DefaultBurst
             /\ ScenarioLog[i - 1].t = 0
             /\ ScenarioLog[i].t >= OneSecondMs
             /\ ScenarioLog[i].t < 2 * OneSecondMs )
           => /\ ScenarioLog[i].ok
              /\ (i + 1 \in DOMAIN ScenarioLog /\ ScenarioLog[i + 1].t = ScenarioLog[i].t)
                    => ~ScenarioLog[i + 1].ok

\* C4 witness: 21 calls at time 0, then two calls exactly one second later.
C4_Witness ==
    /\ Len(ScenarioLog) = DefaultBurst + 3
    /\ ScenarioLog[DefaultBurst + 1].t = 0
    /\ ~ScenarioLog[DefaultBurst + 1].ok
    /\ ScenarioLog[DefaultBurst + 2].t = OneSecondMs
    /\ ScenarioLog[DefaultBurst + 2].ok
    /\ ScenarioLog[DefaultBurst + 3].t = OneSecondMs

C6_DisabledPassThrough ==
    ~cfg.enabled =>
        /\ rate_map = EmptyMap
        /\ \A ip \in Ips : \A i \in DOMAIN log[ip] : log[ip][i].ok

\* C6 witness: rate limiting disabled and one client has made more calls at
\* one instant than burst would admit.
C6_Witness ==
    /\ ~cfg.enabled
    /\ \E ip \in Ips :
          /\ Len(log[ip]) > cfg.burst
          /\ \A i \in DOMAIN log[ip] : log[ip][i].t = 0

====
